---- MODULE Spec2Model ----
(***************************************************************************)
(* Model of the halo-tracker API gateway: the tracking proxy interceptor,  *)
(* the Supabase-backed pricing cache and the read endpoints                *)
(* (src/frontend/lib/mock-data.ts lines 84-440, src/backend/server.js).    *)
(*                                                                         *)
(* Conventions                                                             *)
(*  - a JavaScript string is a sequence of one-character strings;          *)
(*  - an absent header / query parameter / field is the value `undefined`; *)
(*  - a per-token rate is kept in the unit of the pricing table (per       *)
(*    million tokens), so every cost is in millionths of the currency      *)
(*    unit: the division by 1_000_000 of the source is a change of unit;   *)
(*  - one action is one run-to-completion job of the Node.js event loop:   *)
(*    the synchronous code of a handler together with the promise          *)
(*    continuations (microtasks) it makes runnable.                        *)
(***************************************************************************)
EXTENDS Integers, Sequences, FiniteSets, TLC

\* ------------------------------------------------------------------------
\* JavaScript values
\* ------------------------------------------------------------------------

\* an absent header, query parameter or object field
undefined == <<"undefined">>

\* the result of Number(s) for a string that is not numeric
NaN == -1000000000

\* `v || d` of the source for a string v
OrElse(v, d) == IF v = undefined \/ v = <<>> THEN d ELSE v

Digits == <<"0", "1", "2", "3", "4", "5", "6", "7", "8", "9">>

IsDigit(c) == \E i \in 1..10 : Digits[i] = c

DigitVal(c) == (CHOOSE i \in 1..10 : Digits[i] = c) - 1

RECURSIVE DecimalVal(_)
DecimalVal(s) ==
    IF s = <<>> THEN 0
    ELSE 10 * DecimalVal(SubSeq(s, 1, Len(s) - 1)) + DigitVal(s[Len(s)])

IsDecimal(s) == Len(s) > 0 /\ \A i \in 1..Len(s) : IsDigit(s[i])

\* Number(s) for a string s: an optionally signed decimal literal is its
\* value, the empty string is 0, any other text is NaN
Number(s) ==
    IF s = <<>> THEN 0
    ELSE IF IsDecimal(s) THEN DecimalVal(s)
    ELSE IF s[1] = "-" /\ IsDecimal(Tail(s)) THEN 0 - DecimalVal(Tail(s))
    ELSE NaN

UpperChars == <<"A", "B", "C", "D", "E", "F", "G", "H", "I", "J", "K", "L", "M",
                "N", "O", "P", "Q", "R", "S", "T", "U", "V", "W", "X", "Y", "Z">>

LowerChars == <<"a", "b", "c", "d", "e", "f", "g", "h", "i", "j", "k", "l", "m",
                "n", "o", "p", "q", "r", "s", "t", "u", "v", "w", "x", "y", "z">>

toLowerCaseChar(c) ==
    IF \E i \in 1..26 : UpperChars[i] = c
    THEN LowerChars[CHOOSE i \in 1..26 : UpperChars[i] = c]
    ELSE c

toLowerCase(s) == [i \in 1..Len(s) |-> toLowerCaseChar(s[i])]

EndsWith(s, suffix) ==
    /\ Len(s) >= Len(suffix)
    /\ SubSeq(s, Len(s) - Len(suffix) + 1, Len(s)) = suffix

\* ------------------------------------------------------------------------
\* String literals of the source and of the examples
\* ------------------------------------------------------------------------

Colon == <<":">>
Standard == <<"s", "t", "a", "n", "d", "a", "r", "d">>
Batch == <<"b", "a", "t", "c", "h">>
Text == <<"t", "e", "x", "t">>
Unknown == <<"u", "n", "k", "n", "o", "w", "n">>
Default == <<"d", "e", "f", "a", "u", "l", "t">>
LatestSuffix == <<"-", "l", "a", "t", "e", "s", "t">>
DateSuffix == <<"-", "2", "0", "2", "4", "-", "0", "5", "-", "1", "3">>
Gpt4 == <<"g", "p", "t", "-", "4">>
Gpt4Upper == <<"G", "P", "T", "-", "4">>
Gpt4o == <<"g", "p", "t", "-", "4", "o">>
Gpt4Latest == Gpt4 \o LatestSuffix
Gpt4Dated == Gpt4 \o DateSuffix
Gpt4BadDate == Gpt4 \o <<"-", "2", "0", "2", "4", "-", "5", "-", "1", "3">>
Claude == <<"c", "l", "a", "u", "d", "e">>

\* ------------------------------------------------------------------------
\* Pricing cache (mock-data.ts 106-189)
\* ------------------------------------------------------------------------

PRICING_CACHE_TTL_MS == 5 * 60 * 1000

\* the result `null` of getPricingRate
NoRate == [null |-> TRUE]

\* the key `${tier}:${category}:${model}`
RateKey(tier, category, model) == tier \o Colon \o category \o Colon \o model

\* the key and the rate a pricing row is stored under (lines 146-154)
RowKey(row) ==
    RateKey(toLowerCase(OrElse(row.tier, Standard)),
            toLowerCase(OrElse(row.category, Text)),
            toLowerCase(OrElse(row.model, <<>>)))

\* a rate that takes the cached-input price for the input price
RowRate_cachedInput(row) ==
    [input |-> row.cached_input_per_million,
     output |-> row.output_per_million,
     cachedInput |-> row.cached_input_per_million]

\* the rate of a pricing row (lines 150-154)
RowRate(row) ==
    [input |-> row.input_per_million,
     output |-> row.output_per_million,
     cachedInput |-> row.cached_input_per_million]

\* nextCache after data.forEach: a later row with the same key overwrites
\* an earlier one (Map.set)
RECURSIVE nextCache(_)
nextCache(data) ==
    IF data = <<>> THEN [k \in {} |-> NoRate]
    ELSE LET init == nextCache(SubSeq(data, 1, Len(data) - 1))
             row == data[Len(data)]
         IN  [k \in DOMAIN init \cup {RowKey(row)} |->
                 IF k = RowKey(row) THEN RowRate(row) ELSE init[k]]

\* the "-latest" suffix left in place
withoutLatest_kept(normalizedModel) == normalizedModel

withoutLatest(normalizedModel) ==
    IF EndsWith(normalizedModel, LatestSuffix)
    THEN SubSeq(normalizedModel, 1, Len(normalizedModel) - Len(LatestSuffix))
    ELSE normalizedModel

\* the regular expression /-\d{4}-\d{2}-\d{2}$/
HasDateSuffix(s) ==
    /\ Len(s) >= 11
    /\ LET t == SubSeq(s, Len(s) - 10, Len(s))
       IN  /\ t[1] = "-" /\ t[6] = "-" /\ t[9] = "-"
           /\ \A i \in {2, 3, 4, 5, 7, 8, 10, 11} : IsDigit(t[i])

\* the date suffix left in place
withoutDate_kept(normalizedModel) == normalizedModel

withoutDate(normalizedModel) ==
    IF HasDateSuffix(normalizedModel)
    THEN SubSeq(normalizedModel, 1, Len(normalizedModel) - 11)
    ELSE normalizedModel

\* getPricingRate trying the stripped names before the exact key
getPricingRate_strippedFirst(cache, model, tier, category) ==
    IF model = undefined \/ model = <<>> THEN NoRate
    ELSE LET normalizedModel == toLowerCase(model)
             normalizedTier == toLowerCase(tier)
             normalizedCategory == toLowerCase(category)
             key == RateKey(normalizedTier, normalizedCategory, normalizedModel)
             candidates == <<withoutLatest(normalizedModel), withoutDate(normalizedModel)>>
             candidateKey(i) == RateKey(normalizedTier, normalizedCategory, candidates[i])
         IN  IF candidateKey(1) \in DOMAIN cache THEN cache[candidateKey(1)]
             ELSE IF candidateKey(2) \in DOMAIN cache THEN cache[candidateKey(2)]
             ELSE IF key \in DOMAIN cache THEN cache[key]
             ELSE NoRate

\* getPricingRate(model, tier, category) evaluated on the contents `cache`
\* of the module-level pricingCache at the time of the call
getPricingRate(cache, model, tier, category) ==
    IF model = undefined \/ model = <<>> THEN NoRate
    ELSE LET normalizedModel == toLowerCase(model)
             normalizedTier == toLowerCase(tier)
             normalizedCategory == toLowerCase(category)
             key == RateKey(normalizedTier, normalizedCategory, normalizedModel)
             candidates == <<withoutLatest(normalizedModel), withoutDate(normalizedModel)>>
             candidateKey(i) == RateKey(normalizedTier, normalizedCategory, candidates[i])
         IN  IF key \in DOMAIN cache THEN cache[key]
             ELSE IF candidateKey(1) \in DOMAIN cache THEN cache[candidateKey(1)]
             ELSE IF candidateKey(2) \in DOMAIN cache THEN cache[candidateKey(2)]
             ELSE NoRate

\* calculateCost charging a default rate of one unit per token on a miss
calculateCost_defaultRate(cache, model, input, output, tier, category) ==
    LET rate == getPricingRate(cache, model, tier, category)
        inputTokens == IF input = NaN THEN 0 ELSE input
        outputTokens == IF output = NaN THEN 0 ELSE output
    IN  IF rate = NoRate THEN inputTokens + outputTokens
        ELSE (inputTokens * rate.input) + (outputTokens * rate.output)

\* calculateCost(model, input, output, tier, category), in millionths
calculateCost(cache, model, input, output, tier, category) ==
    LET rate == getPricingRate(cache, model, tier, category)
        inputTokens == IF input = NaN THEN 0 ELSE input
        outputTokens == IF output = NaN THEN 0 ELSE output
    IN  IF rate = NoRate THEN 0
        ELSE (inputTokens * rate.input) + (outputTokens * rate.output)

\* ------------------------------------------------------------------------
\* Response capture and usage extraction (mock-data.ts 205-290)
\* ------------------------------------------------------------------------

\* a response without a usage object
NoUsage == [absent |-> TRUE]

\* `obj.field || 0` for a numeric field that may be missing
FieldOrZero(obj, field) == IF field \in DOMAIN obj THEN obj[field] ELSE 0

\* the text that is not the encoding of any JSON document
Garbage == [shape |-> "garbage", model |-> undefined, usage |-> NoUsage]

\* zlib.gunzipSync / inflateSync / brotliDecompressSync succeed on data of
\* their own codec only
CanDecompress(codec, buffer) == buffer.codec = codec

\* buf.toString('utf8')
tryDecode(buffer) == IF buffer.codec = "identity" THEN buffer.doc ELSE Garbage

\* a text is described by its shape:
\*   "object", "array"  a JSON object, a JSON array
\*   "scalar"           a JSON number, string or boolean
\*   "null"             the JSON document null
\*   "invalid"          text that starts with { and is not JSON
\*   "garbage"          any other text that is not JSON
\* rawBody.trim().startsWith('{')
StartsWithBrace(rawBody) == rawBody.shape \in {"object", "invalid"}

looksLikeJson(rawBody) == rawBody.shape \in {"object", "array", "invalid"}

GzipName == <<"g", "z", "i", "p">>
DeflateName == <<"d", "e", "f", "l", "a", "t", "e">>
BrName == <<"b", "r">>

\* line 211: (proxyRes.headers['content-encoding'] || '').toLowerCase()
ContentEncodingOf(header) == toLowerCase(OrElse(header, <<>>))

\* lines 218-225: decoding selected by the Content-Encoding header
HeaderDecoded(buffer, contentEncoding) ==
    LET codec == IF contentEncoding = GzipName THEN "gzip"
                 ELSE IF contentEncoding = DeflateName THEN "deflate"
                 ELSE IF contentEncoding = BrName THEN "br"
                 ELSE "identity"
    IN  IF codec # "identity" /\ CanDecompress(codec, buffer) THEN buffer.doc
        ELSE tryDecode(buffer)

\* the decoding selected by the header alone, without the fallback chain
Decoded_headerOnly(buffer, header) == HeaderDecoded(buffer, ContentEncodingOf(header))

\* lines 209-243: rawBody after the header-selected decoding and the
\* fallback chain gzip (magic bytes), brotli, deflate
Decoded(buffer, header) ==
    LET contentEncoding == ContentEncodingOf(header)
        raw0 == HeaderDecoded(buffer, contentEncoding)
        raw1 == IF buffer.codec = "gzip" THEN buffer.doc ELSE raw0
        raw2 == IF ~StartsWithBrace(raw1) /\ CanDecompress("br", buffer)
                THEN buffer.doc ELSE raw1
        raw3 == IF ~StartsWithBrace(raw2) /\ CanDecompress("deflate", buffer)
                THEN buffer.doc ELSE raw2
    IN  IF looksLikeJson(raw0) THEN raw0 ELSE raw3

\* lines 227-243: the decoders the fallback chain calls, in the order of
\* the calls, each with the value of rawBody after the call (a decoder that
\* throws leaves rawBody as it was)
FallbackChain(buffer, header) ==
    LET raw0 == HeaderDecoded(buffer, ContentEncodingOf(header))
        isGzipped == buffer.codec = "gzip"
        try(codec, raw) == IF CanDecompress(codec, buffer) THEN buffer.doc ELSE raw
        gunzip == IF isGzipped
                  THEN <<[decoder |-> "gzip", rawBody |-> try("gzip", raw0)]>>
                  ELSE <<>>
        raw1 == IF gunzip = <<>> THEN raw0 ELSE gunzip[1].rawBody
        brotli == IF ~StartsWithBrace(raw1)
                  THEN <<[decoder |-> "br", rawBody |-> try("br", raw1)]>>
                  ELSE <<>>
        raw2 == IF brotli = <<>> THEN raw1 ELSE brotli[1].rawBody
        inflate == IF ~StartsWithBrace(raw2)
                   THEN <<[decoder |-> "deflate", rawBody |-> try("deflate", raw2)]>>
                   ELSE <<>>
    IN  IF looksLikeJson(raw0) THEN <<>> ELSE gunzip \o brotli \o inflate

\* a parser that accepts any text, reading text that is not JSON as an
\* empty object
ParseThrows_lenient(rawBody) == rawBody.shape = "null"

\* JSON.parse(rawBody) followed by the property reads of lines 255-262
\* throws for text that is not JSON and for the document `null`
ParseThrows(rawBody) == rawBody.shape \in {"garbage", "invalid", "null"}

ApplicationJson ==
    <<"a", "p", "p", "l", "i", "c", "a", "t", "i", "o", "n", "/", "j", "s", "o", "n">>

\* s.includes(sub)
Includes(s, sub) ==
    \E i \in 0..(Len(s) - Len(sub)) : SubSeq(s, i + 1, i + Len(sub)) = sub

\* the check of line 251 made on the body instead of the header
IsJson_byBody(r) == looksLikeJson(Decoded(r.body, r.contentEncoding))

\* line 251: proxyRes.headers['content-type']?.includes('application/json')
IsJson(r) == r.contentType # undefined /\ Includes(r.contentType, ApplicationJson)

\* line 255
ResolveModel(headers, responseData) ==
    OrElse(headers.xModel, OrElse(responseData.model, Unknown))

\* the token counts with the fallback headers consulted first
ExtractTokens_headersFirst(headers, responseData) ==
    IF headers.xInputTokens # undefined \/ responseData.usage = NoUsage
    THEN <<Number(OrElse(headers.xInputTokens, <<"0">>)),
           Number(OrElse(headers.xOutputTokens, <<"0">>))>>
    ELSE <<FieldOrZero(responseData.usage, "prompt_tokens"),
           FieldOrZero(responseData.usage, "completion_tokens")>>

\* the token counts without the fallback to the headers
ExtractTokens_noFallback(headers, responseData) ==
    IF responseData.usage # NoUsage
    THEN <<FieldOrZero(responseData.usage, "prompt_tokens"),
           FieldOrZero(responseData.usage, "completion_tokens")>>
    ELSE <<0, 0>>

\* lines 259-271: <<inputTokens, outputTokens>>
ExtractTokens(headers, responseData) ==
    IF responseData.usage # NoUsage
    THEN <<FieldOrZero(responseData.usage, "prompt_tokens"),
           FieldOrZero(responseData.usage, "completion_tokens")>>
    ELSE <<Number(OrElse(headers.xInputTokens, <<"0">>)),
           Number(OrElse(headers.xOutputTokens, <<"0">>))>>

\* lines 254-285: the row handed to supabase.from('api_usage_logs').insert
UsageRow(cache, headers, startTime, res, responseData, t) ==
    LET model == ResolveModel(headers, responseData)
        pricingTier == OrElse(headers.xPricingTier, Standard)
        tokens == ExtractTokens(headers, responseData)
    IN  [user_id |-> OrElse(headers.xUserId, <<"t", "e", "s", "t", "_", "u", "s", "e", "r">>),
         service_name |-> OrElse(headers.xServiceName, <<"U", "n", "k", "n", "o", "w", "n", " ", "S", "e", "r", "v", "i", "c", "e">>),
         endpoint |-> headers.url,
         status_code |-> res.statusCode,
         latency_ms |-> t - startTime,
         model |-> model,
         input_tokens |-> tokens[1],
         output_tokens |-> tokens[2],
         estimated_cost |-> calculateCost(cache, model, tokens[1], tokens[2], pricingTier, Text)]

\* ------------------------------------------------------------------------
\* Service breakdown, GET /api/services (mock-data.ts 348-430)
\* ------------------------------------------------------------------------

UnknownService == <<"U", "n", "k", "n", "o", "w", "n", " ", "S", "e", "r", "v", "i", "c", "e">>
UnknownUser == <<"U", "n", "k", "n", "o", "w", "n">>
TestUser == <<"t", "e", "s", "t", "_", "u", "s", "e", "r">>
Slash == <<"/">>
Separator == <<":", ":">>

\* Math.min(a, b) and Math.max(a, b): NaN when an argument is NaN
MathMin(a, b) == IF a = NaN \/ b = NaN THEN NaN ELSE IF a < b THEN a ELSE b

MathMax(a, b) == IF a = NaN \/ b = NaN THEN NaN ELSE IF a > b THEN a ELSE b

\* a + b of two numbers
Plus(a, b) == IF a = NaN \/ b = NaN THEN NaN ELSE a + b

\* Math.round(n / d) for d > 0: the nearest integer, a half rounds up
RoundDiv(n, d) == (2 * n + d) \div (2 * d)

\* the relative index Array.prototype.slice derives from an argument
RelativeIndex(k, len) ==
    IF k = NaN THEN 0
    ELSE IF k < 0 THEN (IF len + k > 0 THEN len + k ELSE 0)
    ELSE IF k < len THEN k ELSE len

\* array.slice(start, end)
Slice(array, start, end) ==
    SubSeq(array, RelativeIndex(start, Len(array)) + 1, RelativeIndex(end, Len(array)))

\* line 351 and line 352
LimitOf(query) == MathMin(Number(OrElse(query.limit, <<"5", "0", "0">>)), 500)

OffsetOf(query) == MathMax(Number(OrElse(query.offset, <<"0">>)), 0)

\* line 369: `${serviceName}::${endpoint}::${userId}`
GroupKey(log) ==
    OrElse(log.service_name, UnknownService) \o Separator
        \o OrElse(log.endpoint, Slash) \o Separator
        \o OrElse(log.user_id, UnknownUser)

\* the keys of serviceBreakdown in insertion order: the keys of the first
\* half of the rows, then the new keys of the second half
RECURSIVE GroupKeys(_)
GroupKeys(data) ==
    IF data = <<>> THEN <<>>
    ELSE IF Len(data) = 1 THEN <<GroupKey(data[1])>>
    ELSE LET half == Len(data) \div 2
             first == GroupKeys(SubSeq(data, 1, half))
             second == GroupKeys(SubSeq(data, half + 1, Len(data)))
             seen == {first[i] : i \in 1..Len(first)}
         IN  first \o SelectSeq(second, LAMBDA key : key \notin seen)

\* the sum of the numbers of s (the sum of its halves)
RECURSIVE SumSeq(_)
SumSeq(s) ==
    IF s = <<>> THEN 0
    ELSE IF Len(s) = 1 THEN s[1]
    ELSE LET half == Len(s) \div 2
         IN  SumSeq(SubSeq(s, 1, half)) + SumSeq(SubSeq(s, half + 1, Len(s)))

RECURSIVE MaxSeq(_)
MaxSeq(s) ==
    IF Len(s) = 1 THEN s[1]
    ELSE LET m == MaxSeq(Tail(s)) IN IF s[1] > m THEN s[1] ELSE m

\* a stored number read as Number(v || 0); a stored null reads as NaN here
NumberOrZero(v) == IF v = NaN THEN 0 ELSE v

\* the cost of a log always computed from its tokens
LogCost_alwaysComputed(cache, log) ==
    calculateCost(cache, OrElse(log.model, Default), NumberOrZero(log.input_tokens),
                  NumberOrZero(log.output_tokens), Standard, Text)

\* lines 397-399: the cost one log contributes to its group
LogCost(cache, log) ==
    LET storedCost == NumberOrZero(log.estimated_cost)
        computedCost == calculateCost(cache, OrElse(log.model, Default),
                                      NumberOrZero(log.input_tokens),
                                      NumberOrZero(log.output_tokens), Standard, Text)
    IN  IF storedCost > 0 THEN storedCost ELSE computedCost

\* line 389: the condition of the success branch
IsSuccess(log) == log.status_code >= 200 /\ log.status_code < 300

\* an error branch taken by client and server errors only
IsError_from400(log) == log.status_code >= 400

\* lines 391-393: the else branch
IsError(log) == ~IsSuccess(log)

\* lines 371-419: the aggregate of the logs of `data` whose key is `key`.
\* success_rate is in tenths of a percent, estimated_cost is rounded to
\* 4 decimals of the currency unit (a multiple of 100 millionths)
Aggregate(cache, key, data) ==
    LET logs == SelectSeq(data, LAMBDA log : GroupKey(log) = key)
        hits == Len(logs)
        success == Len(SelectSeq(logs, IsSuccess))
        errors == Len(SelectSeq(logs, IsError))
        latency == SumSeq([i \in 1..hits |-> NumberOrZero(logs[i].latency_ms)])
        cost == SumSeq([i \in 1..hits |-> LogCost(cache, logs[i])])
        inTok == SumSeq([i \in 1..hits |-> NumberOrZero(logs[i].input_tokens)])
        outTok == SumSeq([i \in 1..hits |-> NumberOrZero(logs[i].output_tokens)])
    IN  [service_name |-> OrElse(logs[1].service_name, UnknownService),
         endpoint |-> OrElse(logs[1].endpoint, Slash),
         user_id |-> OrElse(logs[1].user_id, UnknownUser),
         total_hits |-> hits,
         success_count |-> success,
         error_count |-> errors,
         total_latency |-> latency,
         avg_latency |-> RoundDiv(latency, hits),
         success_rate |-> RoundDiv(success * 1000, hits),
         last_used |-> MaxSeq([i \in 1..hits |-> logs[i].created_at]),
         estimated_cost |-> RoundDiv(cost, 100) * 100,
         total_input_tokens |-> inTok,
         total_output_tokens |-> outTok,
         total_tokens |-> inTok + outTok]

\* Object.values(serviceBreakdown).map(...)
Aggregates(cache, data) ==
    LET keys == GroupKeys(data)
    IN  [i \in 1..Len(keys) |-> Aggregate(cache, keys[i], data)]

\* .sort((a, b) => b.total_hits - a.total_hits): a stable sort, descending
\* (the elements above, equal to and below the middle element's count)
RECURSIVE SortByHits(_)
SortByHits(s) ==
    IF Len(s) <= 1 THEN s
    ELSE LET pivot == s[(Len(s) + 1) \div 2].total_hits
         IN  SortByHits(SelectSeq(s, LAMBDA a : a.total_hits > pivot))
                 \o SelectSeq(s, LAMBDA a : a.total_hits = pivot)
                 \o SortByHits(SelectSeq(s, LAMBDA a : a.total_hits < pivot))

\* .order('created_at', { ascending: false }) of the record store: rows of
\* equal created_at keep their table order
RECURSIVE OrderByCreatedDesc(_)
OrderByCreatedDesc(s) ==
    IF Len(s) <= 1 THEN s
    ELSE LET pivot == s[(Len(s) + 1) \div 2].created_at
         IN  OrderByCreatedDesc(SelectSeq(s, LAMBDA a : a.created_at > pivot))
                 \o SelectSeq(s, LAMBDA a : a.created_at = pivot)
                 \o OrderByCreatedDesc(SelectSeq(s, LAMBDA a : a.created_at < pivot))

\* lines 351-425: the JSON array sent for the query, given the rows `data`
\* of api_usage_logs returned by the record store
paginatedResult(cache, query, data) ==
    LET limit == LimitOf(query)
        offset == OffsetOf(query)
        allResults == SortByHits(Aggregates(cache, data))
    IN  Slice(allResults, offset, Plus(offset, limit))

\* ------------------------------------------------------------------------
\* Daily usage, GET /api/usage (mock-data.ts 300-345, server.js 117-162)
\* ------------------------------------------------------------------------

\* the milliseconds of a UTC day
DayMs == 24 * 60 * 60 * 1000

\* new Date(created_at).toISOString().split('T')[0]: the UTC calendar date
\* of an instant, as the number of whole days since the epoch
DateOf(created_at) == created_at \div DayMs

\* .order('created_at', { ascending: true }) of the record store: rows of
\* equal created_at keep their table order
RECURSIVE OrderByCreatedAsc(_)
OrderByCreatedAsc(s) ==
    IF Len(s) <= 1 THEN s
    ELSE LET pivot == s[(Len(s) + 1) \div 2].created_at
         IN  OrderByCreatedAsc(SelectSeq(s, LAMBDA a : a.created_at < pivot))
                 \o SelectSeq(s, LAMBDA a : a.created_at = pivot)
                 \o OrderByCreatedAsc(SelectSeq(s, LAMBDA a : a.created_at > pivot))

\* the keys of dailyData in insertion order
RECURSIVE Dates(_)
Dates(data) ==
    IF data = <<>> THEN <<>>
    ELSE IF Len(data) = 1 THEN <<DateOf(data[1].created_at)>>
    ELSE LET half == Len(data) \div 2
             first == Dates(SubSeq(data, 1, half))
             second == Dates(SubSeq(data, half + 1, Len(data)))
             seen == {first[i] : i \in 1..Len(first)}
         IN  first \o SelectSeq(second, LAMBDA date : date \notin seen)

\* lines 313-326: the entry of dailyData for one date
DailyData(date, data) ==
    LET logs == SelectSeq(data, LAMBDA log : DateOf(log.created_at) = date)
    IN  [day |-> date,
         daily_hits |-> Len(logs),
         daily_cost |-> SumSeq([i \in 1..Len(logs) |-> NumberOrZero(logs[i].estimated_cost)])]

\* .sort((a, b) => new Date(a.day) - new Date(b.day)): stable, ascending
RECURSIVE SortByDay(_)
SortByDay(s) ==
    IF Len(s) <= 1 THEN s
    ELSE LET pivot == s[(Len(s) + 1) \div 2].day
         IN  SortByDay(SelectSeq(s, LAMBDA a : a.day < pivot))
                 \o SelectSeq(s, LAMBDA a : a.day = pivot)
                 \o SortByDay(SelectSeq(s, LAMBDA a : a.day > pivot))

\* accumulative_total without the running sum
accumulativeTotal_daily(days, i) == days[i].daily_hits

\* line 332: accumulativeTotal after the i-th day of the sorted sequence
accumulativeTotal(days, i) == SumSeq([j \in 1..i |-> days[j].daily_hits])

\* lines 310-338: the JSON array sent, given the rows `data` returned by the
\* record store.  daily_cost is rounded to 3 decimals of the currency unit
\* (a multiple of 1000 millionths)
UsageResult(data) ==
    LET dates == Dates(data)
        days == SortByDay([i \in 1..Len(dates) |-> DailyData(dates[i], data)])
    IN  [i \in 1..Len(days) |->
            [day |-> days[i].day,
             daily_hits |-> days[i].daily_hits,
             accumulative_total |-> accumulativeTotal(days, i),
             daily_cost |-> RoundDiv(days[i].daily_cost, 1000) * 1000]]

\* ------------------------------------------------------------------------
\* The gateway as a state machine
\* ------------------------------------------------------------------------

\* number of requests (proxied exchanges and read requests) of a run
NumRequests == 2

\* number of clock steps of a run, each of one TTL
MaxTicks == 1

TickMs == PRICING_CACHE_TTL_MS

\* Date.now() when the server starts: later than the TTL after the epoch
StartTime == PRICING_CACHE_TTL_MS

Requests == 1..NumRequests

VARIABLES
    pricingCache,          \* Map: rate key -> rate
    pricingCacheLoadedAt,  \* Date.now() of the last successful reload, 0 before
    pricingCacheLoading,   \* "null", or the state of the promise it holds
    now,                   \* Date.now()
    kind,                  \* per request: "none", "proxy" or "services"
    pc,                    \* per request: where its handler is suspended
    headers,               \* per proxied request: req.headers and req.url
    startTime,             \* per proxied request: req.startTime
    res,                   \* per proxied request: the upstream response
    delivered,             \* per proxied request: what the caller was sent
    row,                   \* per proxied request: the row handed to insert
    report,                \* per request: the console message of its outcome
    query,                 \* per read request: req.query
    response,              \* per read request: the response sent
    api_usage_logs,        \* the rows of the usage table, in table order
    pricingQueries,        \* number of selects of model_pricing started
    awaited,               \* per request: the select its ensurePricingCache awaits
    rateFound,             \* per proxied request: calculateCost resolved a rate
    lookup,                \* the last call of getPricingRate and its result
    pricingInFlight,       \* number of selects of model_pricing not yet settled
    lastReload,            \* how the last settled select ended: "none" before
    PROXY_TARGET,          \* process.env.PROXY_TARGET, undefined when not set
    target,                \* per proxied request: the origin it was dispatched to
    rawBody,               \* per proxied request: the decoded text of the response
    receivedAt             \* per proxied request: Date.now() at the 'end' event

vars == <<pricingCache, pricingCacheLoadedAt, pricingCacheLoading, now, kind, pc,
          headers, startTime, res, delivered, row, report, query, response,
          api_usage_logs, pricingQueries, awaited, rateFound, lookup,
          pricingInFlight, lastReload, PROXY_TARGET, target, rawBody, receivedAt>>

cacheVars == <<pricingCache, pricingCacheLoadedAt, pricingCacheLoading,
               pricingInFlight, lastReload>>

NoHeaders == [none |-> TRUE]
NoResponse == [none |-> TRUE]
NoRow == [none |-> TRUE]
NoQuery == [none |-> TRUE]
NoLookup == [none |-> TRUE]
NoText == [none |-> TRUE]
EmptyCache == [k \in {} |-> NoRate]

Init ==
    /\ pricingCache = EmptyCache
    /\ pricingCacheLoadedAt = 0
    /\ pricingCacheLoading = "null"
    /\ now = StartTime
    /\ kind = [p \in Requests |-> "none"]
    /\ pc = [p \in Requests |-> "idle"]
    /\ headers = [p \in Requests |-> NoHeaders]
    /\ startTime = [p \in Requests |-> 0]
    /\ res = [p \in Requests |-> NoResponse]
    /\ delivered = [p \in Requests |-> NoResponse]
    /\ row = [p \in Requests |-> NoRow]
    /\ report = [p \in Requests |-> "none"]
    /\ query = [p \in Requests |-> NoQuery]
    /\ response = [p \in Requests |-> NoResponse]
    /\ api_usage_logs = <<>>
    /\ pricingQueries = 0
    /\ awaited = [p \in Requests |-> 0]
    /\ rateFound = [p \in Requests |-> FALSE]
    /\ lookup = NoLookup
    /\ pricingInFlight = 0
    /\ lastReload = "none"
    /\ PROXY_TARGET = undefined
    /\ target = [p \in Requests |-> undefined]
    /\ rawBody = [p \in Requests |-> NoText]
    /\ receivedAt = [p \in Requests |-> 0]

\* requests are numbered in their order of arrival
Arrived(p) == \A o \in Requests : o < p => pc[o] # "idle"

\* line 130-131: the cache is non-empty and younger than the TTL
CacheFresh ==
    /\ DOMAIN pricingCache # {}
    /\ now - pricingCacheLoadedAt < PRICING_CACHE_TTL_MS

\* lines 254-290 for one proxied request once ensurePricingCache has
\* settled: the new values of its pc, row, report and rateFound.
\* `resolved` is FALSE when the awaited promise rejected (caught at 288).
ProxyContinue(cache, h, st, r, resolved) ==
    LET raw == Decoded(r.body, r.contentEncoding)
        usageRow == UsageRow(cache, h, st, r, raw, now)
    IN  IF ~resolved \/ ParseThrows(raw)
        THEN [pc |-> "done", row |-> NoRow, report |-> "PARSE ERROR", rateFound |-> FALSE]
        ELSE [pc |-> "awaitInsert", row |-> usageRow, report |-> "none",
              rateFound |-> getPricingRate(cache, usageRow.model,
                                OrElse(h.xPricingTier, Standard), Text) # NoRate]

\* lines 348-360 for one read request once ensurePricingCache has settled
ServicesContinue(resolved) ==
    IF resolved
    THEN [pc |-> "awaitLogs", response |-> NoResponse, report |-> "none"]
    ELSE [pc |-> "done", response |-> [status |-> 500, body |-> <<>>],
          report |-> "Error fetching services"]

\* a router that ignores the configured default
router_headerOnly(h, env) == h.xTargetUrl

\* lines 193-195: req.headers['x-target-url'] || process.env.PROXY_TARGET
router(h, env) == OrElse(h.xTargetUrl, env)

\* the response of the gateway itself to a request it cannot proxy
GatewayError == [statusCode |-> 500, body |-> [error |-> TRUE]]

\* router and proxyReq (lines 193-204): the middleware resolves the target
\* and dispatches the request to it
ProxyReq(p, h) ==
    /\ UNCHANGED <<lookup, PROXY_TARGET, rawBody, receivedAt>>
    /\ pc[p] = "idle"
    /\ Arrived(p)
    /\ router(h, PROXY_TARGET) # undefined
    /\ target' = [target EXCEPT ![p] = router(h, PROXY_TARGET)]
    /\ kind' = [kind EXCEPT ![p] = "proxy"]
    /\ pc' = [pc EXCEPT ![p] = "forwarded"]
    /\ headers' = [headers EXCEPT ![p] = h]
    /\ startTime' = [startTime EXCEPT ![p] = now]
    /\ UNCHANGED <<cacheVars, now, res, delivered, row, report, query, response,
                   api_usage_logs, pricingQueries, awaited, rateFound>>

\* the router returns undefined (lines 193-195): the proxy middleware has no
\* target to dispatch to, raises its error and the caller is answered by
\* the error handler; proxyReq and proxyRes never run
ProxyRefuse(p, h) ==
    /\ UNCHANGED <<lookup, PROXY_TARGET, target, rawBody, receivedAt>>
    /\ pc[p] = "idle"
    /\ Arrived(p)
    /\ router(h, PROXY_TARGET) = undefined
    /\ kind' = [kind EXCEPT ![p] = "proxy"]
    /\ pc' = [pc EXCEPT ![p] = "done"]
    /\ headers' = [headers EXCEPT ![p] = h]
    /\ delivered' = [delivered EXCEPT ![p] = GatewayError]
    /\ report' = [report EXCEPT ![p] = "proxy error"]
    /\ UNCHANGED <<cacheVars, now, startTime, res, row, query, response,
                   api_usage_logs, pricingQueries, awaited, rateFound>>

\* ensurePricingCache without line 132: a pending reload is not shared
EnsureOutcome_noShare ==
    IF CacheFresh THEN "return"
    ELSE IF pricingCacheLoading = "rejected" THEN "reject"
    ELSE "start"

\* ensurePricingCache returning at once when a reload is pending
EnsureOutcome_noWait ==
    IF CacheFresh \/ pricingCacheLoading = "pending" THEN "return"
    ELSE IF pricingCacheLoading = "rejected" THEN "reject"
    ELSE "start"

\* lines 130-132: what a call of ensurePricingCache does first
\*   "return": the cache is fresh;  "share": a reload is pending and its
\*   promise is returned;  "reject": pricingCacheLoading still holds a
\*   promise that rejected;  "start": a reload is started
EnsureOutcome ==
    IF CacheFresh THEN "return"
    ELSE IF pricingCacheLoading = "pending" THEN "share"
    ELSE IF pricingCacheLoading = "rejected" THEN "reject"
    ELSE "start"

\* the effect of a call of ensurePricingCache by request p on the reload
\* state: line 134-137 issue the select of model_pricing
EnsureCall(p) ==
    /\ pricingCache' = pricingCache
    /\ pricingCacheLoadedAt' = pricingCacheLoadedAt
    /\ lastReload' = lastReload
    /\ IF EnsureOutcome = "start"
       THEN /\ pricingCacheLoading' = "pending"
            /\ pricingQueries' = pricingQueries + 1
            /\ pricingInFlight' = pricingInFlight + 1
       ELSE UNCHANGED <<pricingCacheLoading, pricingQueries, pricingInFlight>>
    /\ awaited' = [awaited EXCEPT ![p] =
                      IF EnsureOutcome \in {"start", "share"} THEN pricingQueries' ELSE @]

\* the bytes of a body that arrived before its last chunk
FirstChunks(body) == [firstChunksOf |-> body]

\* a 'data' handler that decodes what has arrived so far
ProxyResData_decodes(p, r) ==
    /\ UNCHANGED <<lookup, PROXY_TARGET, target, receivedAt>>
    /\ pc[p] = "forwarded"
    /\ pc' = [pc EXCEPT ![p] = "receiving"]
    /\ res' = [res EXCEPT ![p] = r]
    /\ rawBody' = [rawBody EXCEPT ![p] = Decoded(r.body, r.contentEncoding)]
    /\ delivered' = [delivered EXCEPT ![p] =
                        [statusCode |-> r.statusCode, body |-> FirstChunks(r.body)]]
    /\ UNCHANGED <<cacheVars, now, kind, headers, startTime, row, report, query,
                   response, api_usage_logs, pricingQueries, awaited, rateFound>>

\* proxyRes 'data' (lines 205-207) for a chunk that is not the last one of
\* the body of response r: the handler pushes it on its array body.  No
\* selfHandleResponse is set at lines 192-197, so the proxy middleware has
\* piped proxyRes to the caller: status and chunk are passed on as they
\* arrive.
ProxyResData(p, r) ==
    /\ UNCHANGED <<lookup, PROXY_TARGET, target, rawBody, receivedAt>>
    /\ pc[p] = "forwarded"
    /\ pc' = [pc EXCEPT ![p] = "receiving"]
    /\ res' = [res EXCEPT ![p] = r]
    /\ delivered' = [delivered EXCEPT ![p] =
                        [statusCode |-> r.statusCode, body |-> FirstChunks(r.body)]]
    /\ UNCHANGED <<cacheVars, now, kind, headers, startTime, row, report, query,
                   response, api_usage_logs, pricingQueries, awaited, rateFound>>

\* proxyRes 'end' (lines 208-294): the upstream response is complete.  The
\* proxy middleware pipes status and body to the caller by itself; the
\* handler only reads them.
ProxyResEnd(p, r) ==
    /\ UNCHANGED <<lookup, PROXY_TARGET, target>>
    /\ \/ pc[p] = "forwarded"
       \/ pc[p] = "receiving" /\ r = res[p]
    /\ res' = [res EXCEPT ![p] = r]
    /\ rawBody' = [rawBody EXCEPT ![p] = Decoded(r.body, r.contentEncoding)]
    /\ receivedAt' = [receivedAt EXCEPT ![p] = now]
    /\ delivered' = [delivered EXCEPT ![p] = [statusCode |-> r.statusCode, body |-> r.body]]
    /\ IF ~IsJson(r)
       THEN /\ pc' = [pc EXCEPT ![p] = "done"]
            /\ report' = [report EXCEPT ![p] = "Skipping Log"]
            /\ UNCHANGED <<cacheVars, row, pricingQueries, awaited, rateFound>>
       ELSE /\ EnsureCall(p)
            /\ IF EnsureOutcome \in {"start", "share"}
               THEN /\ pc' = [pc EXCEPT ![p] = "awaitPricing"]
                    /\ UNCHANGED <<row, report, rateFound>>
               ELSE LET c == ProxyContinue(pricingCache, headers[p], startTime[p], r,
                                           EnsureOutcome = "return")
                    IN  /\ pc' = [pc EXCEPT ![p] = c.pc]
                        /\ row' = [row EXCEPT ![p] = c.row]
                        /\ report' = [report EXCEPT ![p] = c.report]
                        /\ rateFound' = [rateFound EXCEPT ![p] = c.rateFound]
    /\ UNCHANGED <<now, kind, headers, startTime, query, response, api_usage_logs>>

\* GET /api/services up to its first suspension (lines 348-350)
ServicesRequest(p, q) ==
    /\ UNCHANGED <<lookup, PROXY_TARGET, target, rawBody, receivedAt>>
    /\ pc[p] = "idle"
    /\ Arrived(p)
    /\ kind' = [kind EXCEPT ![p] = "services"]
    /\ query' = [query EXCEPT ![p] = q]
    /\ EnsureCall(p)
    /\ IF EnsureOutcome \in {"start", "share"}
       THEN /\ pc' = [pc EXCEPT ![p] = "awaitPricing"]
            /\ UNCHANGED <<response, report>>
       ELSE LET c == ServicesContinue(EnsureOutcome = "return")
            IN  /\ pc' = [pc EXCEPT ![p] = c.pc]
                /\ response' = [response EXCEPT ![p] = c.response]
                /\ report' = [report EXCEPT ![p] = c.report]
    /\ UNCHANGED <<now, headers, startTime, res, delivered, row, api_usage_logs, rateFound>>

\* a reload that adds the rows it read to the entries of the cache
ReloadSettle_merges(outcome, data) ==
    /\ UNCHANGED <<lookup, PROXY_TARGET, target, rawBody, receivedAt>>
    /\ pricingCacheLoading = "pending"
    /\ pricingCache' = IF outcome = "data"
                       THEN LET next == nextCache(data)
                            IN  [k \in DOMAIN pricingCache \cup DOMAIN next |->
                                    IF k \in DOMAIN next THEN next[k] ELSE pricingCache[k]]
                       ELSE pricingCache
    /\ pricingCacheLoadedAt' = IF outcome = "data" THEN now ELSE pricingCacheLoadedAt
    /\ pricingCacheLoading' = IF outcome = "throw" THEN "rejected" ELSE "null"
    /\ pricingInFlight' = pricingInFlight - 1
    /\ lastReload' = outcome
    /\ LET waiting(p) == pc[p] = "awaitPricing"
           c(p) == ProxyContinue(pricingCache', headers[p], startTime[p], res[p],
                                 outcome # "throw")
           s(p) == ServicesContinue(outcome # "throw")
       IN  /\ pc' = [p \in Requests |->
                       IF ~waiting(p) THEN pc[p]
                       ELSE IF kind[p] = "proxy" THEN c(p).pc ELSE s(p).pc]
           /\ row' = [p \in Requests |->
                       IF waiting(p) /\ kind[p] = "proxy" THEN c(p).row ELSE row[p]]
           /\ rateFound' = [p \in Requests |->
                       IF waiting(p) /\ kind[p] = "proxy" THEN c(p).rateFound ELSE rateFound[p]]
           /\ report' = [p \in Requests |->
                       IF ~waiting(p) THEN report[p]
                       ELSE IF kind[p] = "proxy" THEN c(p).report ELSE s(p).report]
           /\ response' = [p \in Requests |->
                       IF waiting(p) /\ kind[p] = "services" THEN s(p).response ELSE response[p]]
    /\ UNCHANGED <<now, kind, headers, startTime, res, delivered, query,
                   api_usage_logs, pricingQueries, awaited>>

\* lines 134-162: the select of model_pricing settles.  outcome "data": it
\* returned the rows `data`; "error": it returned an error; "throw": the
\* awaited call rejected.  Every handler suspended in ensurePricingCache
\* resumes in the same job.
ReloadSettle(outcome, data) ==
    /\ UNCHANGED <<lookup, PROXY_TARGET, target, rawBody, receivedAt>>
    /\ pricingCacheLoading = "pending"
    /\ pricingCache' = IF outcome = "data" THEN nextCache(data) ELSE pricingCache
    /\ pricingCacheLoadedAt' = IF outcome = "data" THEN now ELSE pricingCacheLoadedAt
    /\ pricingCacheLoading' = IF outcome = "throw" THEN "rejected" ELSE "null"
    /\ pricingInFlight' = pricingInFlight - 1
    /\ lastReload' = outcome
    /\ LET waiting(p) == pc[p] = "awaitPricing"
           c(p) == ProxyContinue(pricingCache', headers[p], startTime[p], res[p],
                                 outcome # "throw")
           s(p) == ServicesContinue(outcome # "throw")
       IN  /\ pc' = [p \in Requests |->
                       IF ~waiting(p) THEN pc[p]
                       ELSE IF kind[p] = "proxy" THEN c(p).pc ELSE s(p).pc]
           /\ row' = [p \in Requests |->
                       IF waiting(p) /\ kind[p] = "proxy" THEN c(p).row ELSE row[p]]
           /\ rateFound' = [p \in Requests |->
                       IF waiting(p) /\ kind[p] = "proxy" THEN c(p).rateFound ELSE rateFound[p]]
           /\ report' = [p \in Requests |->
                       IF ~waiting(p) THEN report[p]
                       ELSE IF kind[p] = "proxy" THEN c(p).report ELSE s(p).report]
           /\ response' = [p \in Requests |->
                       IF waiting(p) /\ kind[p] = "services" THEN s(p).response ELSE response[p]]
    /\ UNCHANGED <<now, kind, headers, startTime, res, delivered, query,
                   api_usage_logs, pricingQueries, awaited>>

\* the insert settling with a failure turned into a failed response
InsertSettle_failsResponse(p, outcome) ==
    /\ UNCHANGED <<lookup, PROXY_TARGET, target, rawBody, receivedAt>>
    /\ pc[p] = "awaitInsert"
    /\ pc' = [pc EXCEPT ![p] = "done"]
    /\ api_usage_logs' = IF outcome = "ok"
                         THEN Append(api_usage_logs, row[p] @@ [created_at |-> now])
                         ELSE api_usage_logs
    /\ report' = [report EXCEPT ![p] =
                     CASE outcome = "ok" -> "SUCCESS"
                       [] outcome = "error" -> "SUPABASE ERROR"
                       [] OTHER -> "PARSE ERROR"]
    /\ delivered' = [delivered EXCEPT ![p] =
                        IF outcome = "ok" THEN @ ELSE [statusCode |-> 500, body |-> @.body]]
    /\ UNCHANGED <<cacheVars, now, kind, headers, startTime, res, row,
                   query, response, pricingQueries, awaited, rateFound>>

\* the insert settling as an upsert that overwrites the newest row
InsertSettle_upsert(p, outcome) ==
    /\ UNCHANGED <<lookup, PROXY_TARGET, target, rawBody, receivedAt>>
    /\ pc[p] = "awaitInsert"
    /\ pc' = [pc EXCEPT ![p] = "done"]
    /\ api_usage_logs' = IF outcome # "ok" THEN api_usage_logs
                         ELSE IF api_usage_logs = <<>>
                         THEN <<row[p] @@ [created_at |-> now]>>
                         ELSE [api_usage_logs EXCEPT ![Len(api_usage_logs)] =
                                  row[p] @@ [created_at |-> now]]
    /\ report' = [report EXCEPT ![p] =
                     CASE outcome = "ok" -> "SUCCESS"
                       [] outcome = "error" -> "SUPABASE ERROR"
                       [] OTHER -> "PARSE ERROR"]
    /\ UNCHANGED <<cacheVars, now, kind, headers, startTime, res, delivered, row,
                   query, response, pricingQueries, awaited, rateFound>>

\* lines 275-290: the insert into api_usage_logs settles.  "ok": the row is
\* stored (created_at is set by the record store); "error": it returned an
\* error; "throw": the awaited call rejected and is caught at line 288
InsertSettle(p, outcome) ==
    /\ UNCHANGED <<lookup, PROXY_TARGET, target, rawBody, receivedAt>>
    /\ pc[p] = "awaitInsert"
    /\ pc' = [pc EXCEPT ![p] = "done"]
    /\ api_usage_logs' = IF outcome = "ok"
                         THEN Append(api_usage_logs, row[p] @@ [created_at |-> now])
                         ELSE api_usage_logs
    /\ report' = [report EXCEPT ![p] =
                     CASE outcome = "ok" -> "SUCCESS"
                       [] outcome = "error" -> "SUPABASE ERROR"
                       [] OTHER -> "PARSE ERROR"]
    /\ UNCHANGED <<cacheVars, now, kind, headers, startTime, res, delivered, row,
                   query, response, pricingQueries, awaited, rateFound>>

\* a handler that drops the pricing cache once it has answered
ServicesLogsSettle_dropsCache(p, outcome) ==
    /\ UNCHANGED <<lookup, PROXY_TARGET, target, rawBody, receivedAt>>
    /\ pc[p] = "awaitLogs"
    /\ kind[p] = "services"
    /\ pc' = [pc EXCEPT ![p] = "done"]
    /\ response' = [response EXCEPT ![p] =
                       IF outcome = "ok"
                       THEN [status |-> 200,
                             body |-> paginatedResult(pricingCache, query[p],
                                                      OrderByCreatedDesc(api_usage_logs))]
                       ELSE [status |-> 500, body |-> <<>>]]
    /\ report' = [report EXCEPT ![p] =
                     IF outcome = "ok" THEN "none" ELSE "Error fetching services"]
    /\ pricingCache' = EmptyCache
    /\ UNCHANGED <<pricingCacheLoadedAt, pricingCacheLoading, pricingInFlight, lastReload,
                   now, kind, headers, startTime, res, delivered, row,
                   query, api_usage_logs, pricingQueries, awaited, rateFound>>

\* lines 355-429: the select of api_usage_logs settles
ServicesLogsSettle(p, outcome) ==
    /\ UNCHANGED <<lookup, PROXY_TARGET, target, rawBody, receivedAt>>
    /\ pc[p] = "awaitLogs"
    /\ kind[p] = "services"
    /\ pc' = [pc EXCEPT ![p] = "done"]
    /\ response' = [response EXCEPT ![p] =
                       IF outcome = "ok"
                       THEN [status |-> 200,
                             body |-> paginatedResult(pricingCache, query[p],
                                                      OrderByCreatedDesc(api_usage_logs))]
                       ELSE [status |-> 500, body |-> <<>>]]
    /\ report' = [report EXCEPT ![p] =
                     IF outcome = "ok" THEN "none" ELSE "Error fetching services"]
    /\ UNCHANGED <<cacheVars, now, kind, headers, startTime, res, delivered, row,
                   query, api_usage_logs, pricingQueries, awaited, rateFound>>

\* time passes
Tick ==
    /\ UNCHANGED <<lookup, PROXY_TARGET, target, rawBody, receivedAt>>
    /\ now < StartTime + MaxTicks * TickMs
    /\ now' = now + TickMs
    /\ UNCHANGED <<cacheVars, kind, pc, headers, startTime, res, delivered, row, report,
                   query, response, api_usage_logs, pricingQueries, awaited, rateFound>>

\* a call getPricingRate(model, tier, category) on the current cache
Resolve(model, tier, category) ==
    /\ lookup' = [model |-> model, tier |-> tier, category |-> category,
                  rate |-> getPricingRate(pricingCache, model, tier, category)]
    /\ UNCHANGED <<cacheVars, now, kind, pc, headers, startTime, res, delivered, row,
                   report, query, response, api_usage_logs, pricingQueries, awaited,
                   rateFound, PROXY_TARGET, target, rawBody, receivedAt>>

\* ------------------------------------------------------------------------
\* Service breakdown of src/backend/server.js (lines 165-234)
\* ------------------------------------------------------------------------

\* server.js line 167
BackendLimitOf(q) == MathMin(Number(OrElse(q.limit, <<"1", "0", "0">>)), 500)

\* .range(from, to) of the record store on the ordered rows: rows from+1 to
\* to+1; a range that is not numeric or has a negative length is refused
RangeRefused(from, to) == from = NaN \/ to = NaN \/ to - from + 1 < 0

Range(rows, from, to) ==
    SubSeq(rows, from + 1, IF to + 1 < Len(rows) THEN to + 1 ELSE Len(rows))

\* server.js lines 187-226
BackendAggregate(key, data) ==
    LET logs == SelectSeq(data, LAMBDA log : GroupKey(log) = key)
        hits == Len(logs)
        success == Len(SelectSeq(logs, IsSuccess))
        errors == Len(SelectSeq(logs, IsError))
        latency == SumSeq([i \in 1..hits |-> NumberOrZero(logs[i].latency_ms)])
        cost == SumSeq([i \in 1..hits |-> NumberOrZero(logs[i].estimated_cost)])
    IN  [service_name |-> OrElse(logs[1].service_name, UnknownService),
         endpoint |-> OrElse(logs[1].endpoint, Slash),
         user_id |-> OrElse(logs[1].user_id, UnknownUser),
         total_hits |-> hits,
         success_count |-> success,
         error_count |-> errors,
         total_latency |-> latency,
         avg_latency |-> RoundDiv(latency, hits),
         success_rate |-> RoundDiv(success * 1000, hits),
         last_used |-> MaxSeq([i \in 1..hits |-> logs[i].created_at]),
         estimated_cost |-> RoundDiv(cost, 100) * 100]

\* server.js lines 179-229: the JSON array sent, given the rows `data` the
\* record store returned for the range
BackendResult(data) ==
    LET keys == GroupKeys(data)
    IN  SortByHits([i \in 1..Len(keys) |-> BackendAggregate(keys[i], data)])

\* server.js lines 165-174: GET /api/services up to the select
BackendServicesRequest(p, q) ==
    /\ UNCHANGED <<lookup, PROXY_TARGET, target, rawBody, receivedAt>>
    /\ pc[p] = "idle"
    /\ Arrived(p)
    /\ kind' = [kind EXCEPT ![p] = "backend"]
    /\ query' = [query EXCEPT ![p] = q]
    /\ pc' = [pc EXCEPT ![p] = "awaitLogs"]
    /\ UNCHANGED <<cacheVars, now, headers, startTime, res, delivered, row, report,
                   response, api_usage_logs, pricingQueries, awaited, rateFound>>

\* server.js lines 170-233: the select of api_usage_logs settles
BackendLogsSettle(p, outcome) ==
    /\ UNCHANGED <<lookup, PROXY_TARGET, target, rawBody, receivedAt>>
    /\ pc[p] = "awaitLogs"
    /\ kind[p] = "backend"
    /\ pc' = [pc EXCEPT ![p] = "done"]
    /\ LET limit == BackendLimitOf(query[p])
           offset == OffsetOf(query[p])
           to == Plus(Plus(offset, limit), -1)
           refused == outcome # "ok" \/ RangeRefused(offset, to)
       IN  /\ response' = [response EXCEPT ![p] =
                  IF refused THEN [status |-> 500, body |-> <<>>]
                  ELSE [status |-> 200,
                        body |-> BackendResult(Range(OrderByCreatedDesc(api_usage_logs),
                                                     offset, to))]]
           /\ report' = [report EXCEPT ![p] =
                  IF refused THEN "Error fetching services" ELSE "none"]
    /\ UNCHANGED <<cacheVars, now, kind, headers, startTime, res, delivered, row,
                   query, api_usage_logs, pricingQueries, awaited, rateFound>>

\* GET /api/usage up to the select (lines 300-305)
UsageRequest(p) ==
    /\ UNCHANGED <<lookup, PROXY_TARGET, target, rawBody, receivedAt>>
    /\ pc[p] = "idle"
    /\ Arrived(p)
    /\ kind' = [kind EXCEPT ![p] = "usage"]
    /\ pc' = [pc EXCEPT ![p] = "awaitLogs"]
    /\ UNCHANGED <<cacheVars, now, headers, startTime, res, delivered, row, report,
                   query, response, api_usage_logs, pricingQueries, awaited, rateFound>>

\* lines 302-344: the select of api_usage_logs settles
UsageLogsSettle(p, outcome) ==
    /\ UNCHANGED <<lookup, PROXY_TARGET, target, rawBody, receivedAt>>
    /\ pc[p] = "awaitLogs"
    /\ kind[p] = "usage"
    /\ pc' = [pc EXCEPT ![p] = "done"]
    /\ response' = [response EXCEPT ![p] =
                       IF outcome = "ok"
                       THEN [status |-> 200,
                             body |-> UsageResult(OrderByCreatedAsc(api_usage_logs))]
                       ELSE [status |-> 500, body |-> <<>>]]
    /\ report' = [report EXCEPT ![p] =
                     IF outcome = "ok" THEN "none" ELSE "Error fetching usage"]
    /\ UNCHANGED <<cacheVars, now, kind, headers, startTime, res, delivered, row,
                   query, api_usage_logs, pricingQueries, awaited, rateFound>>

\* ------------------------------------------------------------------------
\* Inputs
\* ------------------------------------------------------------------------

ServiceA == <<"A">>
ServiceB == <<"B">>
ServiceC == <<"C">>
UserU == <<"u">>
ChatUrl == <<"/", "v", "1">>
TextHtml == <<"t", "e", "x", "t", "/", "h", "t", "m", "l">>
TargetUrl == <<"h", "t", "t", "p", "s", ":", "/", "/", "a", "p", "i">>
DefaultTarget == <<"h", "t", "t", "p", "s", ":", "/", "/", "d", "e", "f">>

MkHeaders(model, tier, inTok, outTok, service, user) ==
    [xModel |-> model, xPricingTier |-> tier, xInputTokens |-> inTok,
     xOutputTokens |-> outTok, xServiceName |-> service, xUserId |-> user,
     xTargetUrl |-> TargetUrl, url |-> ChatUrl]

MkDoc(model, usage) == [shape |-> "object", model |-> model, usage |-> usage]

MkResponse(status, contentType, contentEncoding, codec, doc) ==
    [statusCode |-> status, contentType |-> contentType, contentEncoding |-> contentEncoding,
     body |-> [codec |-> codec, doc |-> doc]]

MkPricing(model, tier, category, inRate, outRate) ==
    [model |-> model, tier |-> tier, category |-> category,
     input_per_million |-> inRate, output_per_million |-> outRate,
     cached_input_per_million |-> 0]

MkQuery(limit, offset) == [limit |-> limit, offset |-> offset]

Usage100x50 == [prompt_tokens |-> 100, completion_tokens |-> 50]

\* the contents the pricing table may have when it is read
PricingTables ==
    {<<>>,
     <<MkPricing(Gpt4, Standard, Text, 30, 60)>>}

\* the requests and upstream responses of the concurrent runs
SpecHeaders ==
    {MkHeaders(undefined, undefined, <<"9", "9", "9">>, undefined, ServiceA, UserU)}

SpecResponses ==
    {MkResponse(200, ApplicationJson, undefined, "identity", MkDoc(Gpt4Dated, Usage100x50))}

SpecQueries == {MkQuery(undefined, undefined)}

StoreOutcomes == {"ok", "error", "throw"}

\* ------------------------------------------------------------------------
\* Specification of the gateway under concurrent requests
\* ------------------------------------------------------------------------

Next ==
    \/ \E p \in Requests, h \in SpecHeaders : ProxyReq(p, h)
    \/ \E p \in Requests, r \in SpecResponses : ProxyResEnd(p, r)
    \/ \E p \in Requests, q \in SpecQueries : ServicesRequest(p, q)
    \/ \E data \in PricingTables : ReloadSettle("data", data)
    \/ \E outcome \in {"error", "throw"} : ReloadSettle(outcome, <<>>)
    \/ \E p \in Requests, outcome \in StoreOutcomes : InsertSettle(p, outcome)
    \/ \E p \in Requests, outcome \in StoreOutcomes : ServicesLogsSettle(p, outcome)
    \/ Tick

Spec == Init /\ [][Next]_vars

\* ------------------------------------------------------------------------
\* Specification of one proxied exchange over varied requests and responses
\* ------------------------------------------------------------------------

N999 == <<"9", "9", "9">>
N200 == <<"2", "0", "0">>
N80 == <<"8", "0">>
Minus5 == <<"-", "5">>
NotANumber == <<"a", "b", "c">>

ExchangeHeaders ==
    {MkHeaders(model, tier, inTok, outTok, ServiceA, UserU) :
        model \in {undefined, Claude, Gpt4Latest},
        tier \in {undefined, Batch},
        inTok \in {undefined, N999, N200, NotANumber, Minus5},
        outTok \in {undefined, N80}}

InvalidDoc == [shape |-> "invalid", model |-> undefined, usage |-> NoUsage]
NullDoc == [shape |-> "null", model |-> undefined, usage |-> NoUsage]
ArrayDoc == [shape |-> "array", model |-> undefined, usage |-> NoUsage]

ExchangeDocs ==
    {MkDoc(Gpt4Dated, Usage100x50),
     MkDoc(Gpt4Dated, NoUsage),
     MkDoc(undefined, NoUsage),
     MkDoc(undefined, [prompt_tokens |-> 100]),
     MkDoc(Gpt4o, [completion_tokens |-> 50]),
     MkDoc(Gpt4o, [total_tokens |-> 7]),
     InvalidDoc, NullDoc, ArrayDoc}

ExchangeResponses ==
    {MkResponse(200, ApplicationJson, undefined, "identity", doc) : doc \in ExchangeDocs}
    \cup {MkResponse(500, ApplicationJson, undefined, "identity", MkDoc(undefined, NoUsage)),
          MkResponse(200, TextHtml, undefined, "identity", MkDoc(Gpt4Dated, Usage100x50))}
    \cup {MkResponse(200, ApplicationJson, enc, codec, MkDoc(Gpt4Dated, Usage100x50)) :
              enc \in {undefined, GzipName}, codec \in {"gzip", "br"}}

ExchangeTables ==
    {<<>>,
     <<MkPricing(Gpt4, Standard, Text, 30, 60)>>,
     <<MkPricing(Gpt4, Standard, Text, 30, 60), MkPricing(Claude, Batch, Text, 3, 15)>>}

NextExchange ==
    \/ \E h \in ExchangeHeaders : ProxyReq(1, h)
    \/ \E r \in ExchangeResponses : ProxyResEnd(1, r)
    \/ \E data \in ExchangeTables : ReloadSettle("data", data)
    \/ \E outcome \in {"error", "throw"} : ReloadSettle(outcome, <<>>)
    \/ \E outcome \in StoreOutcomes : InsertSettle(1, outcome)

SpecExchange == Init /\ [][NextExchange]_vars

\* ------------------------------------------------------------------------
\* Specification of rate resolution over varied caches and names
\* ------------------------------------------------------------------------

Gpt4LatestUpper == <<"G", "P", "T", "-", "4", "-", "L", "A", "T", "E", "S", "T">>
StandardUpper == <<"S", "T", "A", "N", "D", "A", "R", "D">>
TextUpper == <<"T", "e", "x", "t">>
Image == <<"i", "m", "a", "g", "e">>

RateTables ==
    {<<>>,
     <<MkPricing(Gpt4, Standard, Text, 30, 60)>>,
     <<MkPricing(Gpt4, Standard, Text, 30, 60), MkPricing(Gpt4Dated, Standard, Text, 10, 20)>>,
     <<MkPricing(Gpt4, Standard, Text, 30, 60), MkPricing(Gpt4Latest, Standard, Text, 5, 6)>>,
     <<MkPricing(Gpt4Upper, StandardUpper, TextUpper, 7, 8), MkPricing(Gpt4, Batch, Text, 1, 2)>>,
     <<MkPricing(Gpt4, undefined, undefined, 30, 60), MkPricing(Gpt4, Standard, Image, 9, 9)>>}

RateModels ==
    {Gpt4, Gpt4Upper, Gpt4Latest, Gpt4LatestUpper, Gpt4Dated, Gpt4BadDate, Gpt4o,
     Gpt4Latest \o DateSuffix, Gpt4Dated \o LatestSuffix, Claude, <<>>}

RateTiers == {Standard, StandardUpper, Batch}

RateCategories == {Text, TextUpper, Image}

\* a server whose pricing cache was loaded from one of the tables
InitRate ==
    /\ pricingCache \in {nextCache(data) : data \in RateTables}
    /\ pricingCacheLoadedAt = StartTime
    /\ pricingCacheLoading = "null"
    /\ now = StartTime
    /\ kind = [p \in Requests |-> "none"]
    /\ pc = [p \in Requests |-> "idle"]
    /\ headers = [p \in Requests |-> NoHeaders]
    /\ startTime = [p \in Requests |-> 0]
    /\ res = [p \in Requests |-> NoResponse]
    /\ delivered = [p \in Requests |-> NoResponse]
    /\ row = [p \in Requests |-> NoRow]
    /\ report = [p \in Requests |-> "none"]
    /\ query = [p \in Requests |-> NoQuery]
    /\ response = [p \in Requests |-> NoResponse]
    /\ api_usage_logs = <<>>
    /\ pricingQueries = 1
    /\ awaited = [p \in Requests |-> 0]
    /\ rateFound = [p \in Requests |-> FALSE]
    /\ lookup = NoLookup
    /\ pricingInFlight = 0
    /\ lastReload = "data"
    /\ PROXY_TARGET = undefined
    /\ target = [p \in Requests |-> undefined]
    /\ rawBody = [p \in Requests |-> NoText]
    /\ receivedAt = [p \in Requests |-> 0]

NextRate ==
    \E model \in RateModels, tier \in RateTiers, category \in RateCategories :
        Resolve(model, tier, category)

SpecRate == InitRate /\ [][NextRate]_vars

\* ------------------------------------------------------------------------
\* Specification of the service breakdown over varied usage tables
\* ------------------------------------------------------------------------

\* number of groups of the large usage table: more than a page of 500
ManyGroups == 502

MkLog(service, user, status, latency, cost, created) ==
    [user_id |-> user, service_name |-> service, endpoint |-> ChatUrl,
     status_code |-> status, latency_ms |-> latency, model |-> Gpt4,
     input_tokens |-> 100, output_tokens |-> 50, estimated_cost |-> cost,
     created_at |-> created]

\* the decimal digits of a natural number
RECURSIVE ToDigits(_)
ToDigits(n) ==
    IF n < 10 THEN <<Digits[n + 1]>>
    ELSE ToDigits(n \div 10) \o <<Digits[(n % 10) + 1]>>

\* 20 rows, oldest first: 3 of service C, 7 of B and 10 of A, interleaved
ExampleLogs ==
    [i \in 1..20 |->
        MkLog(IF i \in {2, 9, 16} THEN ServiceC
              ELSE IF i \in {1, 4, 7, 10, 13, 17, 19} THEN ServiceB
              ELSE ServiceA,
              UserU, IF i % 4 = 0 THEN 500 ELSE 200, 10 * i, 4500, 1000 * i)]

\* rows with absent fields, equal timestamps and groups of equal size
MixedLogs ==
    <<MkLog(ServiceA, UserU, 200, 7, 0, 1000),
      MkLog(undefined, undefined, 404, 8, 4500, 1000),
      MkLog(ServiceB, UserU, 200, 4, 4500, 3000),
      MkLog(undefined, undefined, 200, 5, 4500, 2000)>>

\* one row for each of ManyGroups users
ManyLogs == [i \in 1..ManyGroups |-> MkLog(ServiceA, ToDigits(i), 200, 5, 4500, 1000 * i)]

\* 3 rows on day 2 (its first and its last millisecond among them) and 2
\* rows on day 3
DailyLogs ==
    <<MkLog(ServiceA, UserU, 200, 7, 4500, 2 * DayMs),
      MkLog(ServiceB, UserU, 200, 8, 4500, 2 * DayMs + 5000),
      MkLog(ServiceA, UserU, 500, 4, 4400, 3 * DayMs - 1),
      MkLog(ServiceA, UserU, 200, 5, 4500, 3 * DayMs),
      MkLog(ServiceB, UserU, 200, 5, 250, 3 * DayMs + 7)>>

\* rows of days 1, 3 and 4, stored out of their order of creation
GapLogs ==
    <<MkLog(ServiceA, UserU, 200, 7, 4500, 3 * DayMs + 1),
      MkLog(ServiceB, UserU, 200, 8, 4500, 4 * DayMs + 2),
      MkLog(ServiceA, UserU, 302, 4, 4500, DayMs + 3),
      MkLog(ServiceA, UserU, 200, 5, 4500, 3 * DayMs + 4)>>

\* rows of two services whose names and endpoints contain the separator
SeparatorLogs ==
    <<[MkLog(ServiceA, UserU, 200, 5, 4500, 1000) EXCEPT
          !.endpoint = <<"/", "b", ":", ":", "/", "c">>],
      [MkLog(<<"A", ":", ":", "/", "b">>, UserU, 500, 7, 4500, 2000) EXCEPT
          !.endpoint = <<"/", "c">>],
      MkLog(ServiceB, UserU, 200, 4, 4500, 3000)>>

LogTables == {<<>>, ExampleLogs, MixedLogs, ManyLogs, DailyLogs, GapLogs, SeparatorLogs}

Minus1 == <<"-", "1">>

ServicesQueries ==
    {MkQuery(limit, offset) :
        limit \in {undefined, <<"1">>, <<"0">>, <<"2">>, Minus1, NotANumber, <<"6", "0", "0">>},
        offset \in {undefined, <<"1">>, Minus1}}

\* the pricing tables the cache was loaded from: with and without a rate
\* for the model of the usage rows
ServicesPricing ==
    {<<MkPricing(Gpt4, Standard, Text, 30, 60)>>,
     <<MkPricing(Claude, Standard, Text, 3, 15)>>}

\* a server with a loaded pricing cache in front of one of the usage tables
InitServices ==
    /\ pricingCache \in {nextCache(data) : data \in ServicesPricing}
    /\ pricingCacheLoadedAt = StartTime
    /\ pricingCacheLoading = "null"
    /\ now = StartTime
    /\ kind = [p \in Requests |-> "none"]
    /\ pc = [p \in Requests |-> "idle"]
    /\ headers = [p \in Requests |-> NoHeaders]
    /\ startTime = [p \in Requests |-> 0]
    /\ res = [p \in Requests |-> NoResponse]
    /\ delivered = [p \in Requests |-> NoResponse]
    /\ row = [p \in Requests |-> NoRow]
    /\ report = [p \in Requests |-> "none"]
    /\ query = [p \in Requests |-> NoQuery]
    /\ response = [p \in Requests |-> NoResponse]
    /\ api_usage_logs \in LogTables
    /\ pricingQueries = 1
    /\ awaited = [p \in Requests |-> 0]
    /\ rateFound = [p \in Requests |-> FALSE]
    /\ lookup = NoLookup
    /\ pricingInFlight = 0
    /\ lastReload = "data"
    /\ PROXY_TARGET = undefined
    /\ target = [p \in Requests |-> undefined]
    /\ rawBody = [p \in Requests |-> NoText]
    /\ receivedAt = [p \in Requests |-> 0]

NextServices ==
    \/ \E q \in ServicesQueries : ServicesRequest(1, q)
    \/ \E outcome \in StoreOutcomes : ServicesLogsSettle(1, outcome)
    \/ \E q \in ServicesQueries : BackendServicesRequest(1, q)
    \/ \E outcome \in StoreOutcomes : BackendLogsSettle(1, outcome)
    \/ UsageRequest(1)
    \/ \E outcome \in StoreOutcomes : UsageLogsSettle(1, outcome)

SpecServices == InitServices /\ [][NextServices]_vars

\* ------------------------------------------------------------------------
\* Specification of routing over varied routing headers and configurations
\* ------------------------------------------------------------------------

RoutingHeaders ==
    {[MkHeaders(undefined, undefined, N200, N80, service, user) EXCEPT !.xTargetUrl = url] :
        url \in {undefined, TargetUrl},
        service \in {undefined, ServiceA},
        user \in {undefined, UserU}}

RoutingResponses ==
    {MkResponse(200, ApplicationJson, undefined, "identity", MkDoc(Gpt4, Usage100x50)),
     MkResponse(404, ApplicationJson, undefined, "identity", MkDoc(undefined, NoUsage)),
     MkResponse(200, TextHtml, undefined, "identity", Garbage)}

\* a server started with or without a configured default target
InitRouting ==
    /\ pricingCache = EmptyCache
    /\ pricingCacheLoadedAt = 0
    /\ pricingCacheLoading = "null"
    /\ now = StartTime
    /\ kind = [p \in Requests |-> "none"]
    /\ pc = [p \in Requests |-> "idle"]
    /\ headers = [p \in Requests |-> NoHeaders]
    /\ startTime = [p \in Requests |-> 0]
    /\ res = [p \in Requests |-> NoResponse]
    /\ delivered = [p \in Requests |-> NoResponse]
    /\ row = [p \in Requests |-> NoRow]
    /\ report = [p \in Requests |-> "none"]
    /\ query = [p \in Requests |-> NoQuery]
    /\ response = [p \in Requests |-> NoResponse]
    /\ api_usage_logs = <<>>
    /\ pricingQueries = 0
    /\ awaited = [p \in Requests |-> 0]
    /\ rateFound = [p \in Requests |-> FALSE]
    /\ lookup = NoLookup
    /\ pricingInFlight = 0
    /\ lastReload = "none"
    /\ PROXY_TARGET \in {undefined, DefaultTarget}
    /\ target = [p \in Requests |-> undefined]
    /\ rawBody = [p \in Requests |-> NoText]
    /\ receivedAt = [p \in Requests |-> 0]

NextRouting ==
    \/ \E h \in RoutingHeaders : ProxyReq(1, h)
    \/ \E h \in RoutingHeaders : ProxyRefuse(1, h)
    \/ \E r \in RoutingResponses : ProxyResEnd(1, r)
    \/ \E data \in PricingTables : ReloadSettle("data", data)
    \/ \E outcome \in StoreOutcomes : InsertSettle(1, outcome)

SpecRouting == InitRouting /\ [][NextRouting]_vars

\* ------------------------------------------------------------------------
\* Specification of response decoding over varied bodies, codecs and headers
\* ------------------------------------------------------------------------

ApplicationJsonUtf8 == ApplicationJson \o <<";", " ", "c", "h", "a", "r", "s", "e", "t", "=", "u", "t", "f", "-", "8">>
ApplicationJsonUpper ==
    <<"A", "p", "p", "l", "i", "c", "a", "t", "i", "o", "n", "/", "J", "S", "O", "N">>
GzipUpper == <<"G", "Z", "I", "P">>
IdentityName == <<"i", "d", "e", "n", "t", "i", "t", "y">>
ScalarDoc == [shape |-> "scalar", model |-> undefined, usage |-> NoUsage]

DecodeHeaders ==
    {MkHeaders(undefined, undefined, N200, N80, ServiceA, UserU),
     MkHeaders(Claude, undefined, undefined, undefined, ServiceA, UserU)}

\* the texts an upstream sends: JSON documents and text that is not JSON
DecodeDocs ==
    {MkDoc(Gpt4Dated, Usage100x50), ArrayDoc, ScalarDoc, NullDoc, InvalidDoc, Garbage}

Codecs == {"identity", "gzip", "deflate", "br"}

DecodeResponses ==
    {MkResponse(status, contentType, enc, codec, doc) :
        status \in {200, 500},
        contentType \in {undefined, TextHtml, ApplicationJson, ApplicationJsonUtf8,
                         ApplicationJsonUpper},
        enc \in {undefined, GzipName, GzipUpper, DeflateName, BrName, IdentityName},
        codec \in Codecs,
        doc \in DecodeDocs}

NextDecode ==
    \/ \E h \in DecodeHeaders : ProxyReq(1, h)
    \/ \E r \in DecodeResponses : ProxyResEnd(1, r)
    \/ \E data \in PricingTables : ReloadSettle("data", data)
    \/ \E outcome \in {"error", "throw"} : ReloadSettle(outcome, <<>>)
    \/ \E outcome \in StoreOutcomes : InsertSettle(1, outcome)

SpecDecode == Init /\ [][NextDecode]_vars

\* ------------------------------------------------------------------------
\* Specification of the cost of an exchange over varied pricing tables
\* ------------------------------------------------------------------------

\* the rows a pricing table has besides the row of gpt-4, standard, text
CostExtras ==
    {<<>>,
     <<MkPricing(Gpt4, Batch, Text, 1, 2)>>,
     <<MkPricing(Gpt4, Standard, Image, 9, 9), MkPricing(Claude, Standard, Text, 3, 15)>>}

CostTables ==
    {<<[MkPricing(Gpt4, Standard, Text, a, b) EXCEPT !.cached_input_per_million = c]>> \o extra :
        a \in {30, 7}, b \in {60, 2}, c \in {0, 15}, extra \in CostExtras}

CostHeaders ==
    {MkHeaders(model, tier, inTok, outTok, ServiceA, UserU) :
        model \in {undefined, Gpt4Upper},
        tier \in {undefined, StandardUpper, Batch},
        inTok \in {N200, N999},
        outTok \in {undefined, N80}}

CostResponses ==
    {MkResponse(200, ApplicationJson, undefined, "identity", doc) :
        doc \in {MkDoc(Gpt4Dated, Usage100x50),
                 MkDoc(Gpt4Latest, NoUsage),
                 MkDoc(Gpt4, [prompt_tokens |-> 100])}}

\* a server whose pricing cache was loaded from one of the tables
InitCost ==
    /\ pricingCache \in {nextCache(data) : data \in CostTables}
    /\ pricingCacheLoadedAt = StartTime
    /\ pricingCacheLoading = "null"
    /\ now = StartTime
    /\ kind = [p \in Requests |-> "none"]
    /\ pc = [p \in Requests |-> "idle"]
    /\ headers = [p \in Requests |-> NoHeaders]
    /\ startTime = [p \in Requests |-> 0]
    /\ res = [p \in Requests |-> NoResponse]
    /\ delivered = [p \in Requests |-> NoResponse]
    /\ row = [p \in Requests |-> NoRow]
    /\ report = [p \in Requests |-> "none"]
    /\ query = [p \in Requests |-> NoQuery]
    /\ response = [p \in Requests |-> NoResponse]
    /\ api_usage_logs = <<>>
    /\ pricingQueries = 1
    /\ awaited = [p \in Requests |-> 0]
    /\ rateFound = [p \in Requests |-> FALSE]
    /\ lookup = NoLookup
    /\ pricingInFlight = 0
    /\ lastReload = "data"
    /\ PROXY_TARGET = undefined
    /\ target = [p \in Requests |-> undefined]
    /\ rawBody = [p \in Requests |-> NoText]
    /\ receivedAt = [p \in Requests |-> 0]

NextCost ==
    \/ \E h \in CostHeaders : ProxyReq(1, h)
    \/ \E r \in CostResponses : ProxyResEnd(1, r)
    \/ \E outcome \in StoreOutcomes : InsertSettle(1, outcome)

SpecCost == InitCost /\ [][NextCost]_vars

\* ------------------------------------------------------------------------
\* Specification of exchanges whose body arrives in several chunks
\* ------------------------------------------------------------------------

StreamResponses ==
    {MkResponse(200, ApplicationJson, undefined, "identity", MkDoc(Gpt4Dated, Usage100x50)),
     MkResponse(200, ApplicationJson, GzipName, "gzip", MkDoc(Gpt4, NoUsage)),
     MkResponse(200, TextHtml, undefined, "identity", Garbage)}

NextStream ==
    \/ \E p \in Requests, h \in SpecHeaders : ProxyReq(p, h)
    \/ \E p \in Requests, r \in StreamResponses : ProxyResData(p, r)
    \/ \E p \in Requests, r \in StreamResponses : ProxyResEnd(p, r)
    \/ \E data \in PricingTables : ReloadSettle("data", data)
    \/ \E outcome \in {"error", "throw"} : ReloadSettle(outcome, <<>>)
    \/ \E p \in Requests, outcome \in StoreOutcomes : InsertSettle(p, outcome)

SpecStream == Init /\ [][NextStream]_vars

\* ------------------------------------------------------------------------
\* Specification of the reloads of the pricing cache as time passes
\* ------------------------------------------------------------------------

\* the contents of a pricing table that changes between two reloads
ReloadTables ==
    {<<MkPricing(Gpt4, Standard, Text, 30, 60)>>,
     <<MkPricing(Gpt4, Standard, Text, 10, 20), MkPricing(Claude, Standard, Text, 3, 15)>>}

NextReload ==
    \/ \E p \in Requests, h \in SpecHeaders : ProxyReq(p, h)
    \/ \E p \in Requests, r \in SpecResponses : ProxyResEnd(p, r)
    \/ \E data \in ReloadTables : ReloadSettle("data", data)
    \/ \E outcome \in {"error", "throw"} : ReloadSettle(outcome, <<>>)
    \/ Tick

SpecReload == Init /\ [][NextReload]_vars

\* ------------------------------------------------------------------------
\* Specification of the gateway with every operation over a stored usage log
\* ------------------------------------------------------------------------

GatewayLogs == {<<>>, MixedLogs}

GatewayQueries == {MkQuery(undefined, undefined), MkQuery(<<"1">>, <<"1">>)}

\* a server that has just started in front of one of the usage tables
InitGateway ==
    /\ pricingCache = EmptyCache
    /\ pricingCacheLoadedAt = 0
    /\ pricingCacheLoading = "null"
    /\ now = StartTime
    /\ kind = [p \in Requests |-> "none"]
    /\ pc = [p \in Requests |-> "idle"]
    /\ headers = [p \in Requests |-> NoHeaders]
    /\ startTime = [p \in Requests |-> 0]
    /\ res = [p \in Requests |-> NoResponse]
    /\ delivered = [p \in Requests |-> NoResponse]
    /\ row = [p \in Requests |-> NoRow]
    /\ report = [p \in Requests |-> "none"]
    /\ query = [p \in Requests |-> NoQuery]
    /\ response = [p \in Requests |-> NoResponse]
    /\ api_usage_logs \in GatewayLogs
    /\ pricingQueries = 0
    /\ awaited = [p \in Requests |-> 0]
    /\ rateFound = [p \in Requests |-> FALSE]
    /\ lookup = NoLookup
    /\ pricingInFlight = 0
    /\ lastReload = "none"
    /\ PROXY_TARGET = undefined
    /\ target = [p \in Requests |-> undefined]
    /\ rawBody = [p \in Requests |-> NoText]
    /\ receivedAt = [p \in Requests |-> 0]

NextGateway ==
    \/ \E p \in Requests, h \in SpecHeaders : ProxyReq(p, h)
    \/ \E p \in Requests, r \in SpecResponses : ProxyResEnd(p, r)
    \/ \E p \in Requests, q \in GatewayQueries : ServicesRequest(p, q)
    \/ \E p \in Requests : UsageRequest(p)
    \/ \E data \in PricingTables : ReloadSettle("data", data)
    \/ \E outcome \in {"error", "throw"} : ReloadSettle(outcome, <<>>)
    \/ \E p \in Requests, outcome \in StoreOutcomes : InsertSettle(p, outcome)
    \/ \E p \in Requests, outcome \in StoreOutcomes : ServicesLogsSettle(p, outcome)
    \/ \E p \in Requests, outcome \in StoreOutcomes : UsageLogsSettle(p, outcome)

SpecGateway == InitGateway /\ [][NextGateway]_vars

\* ------------------------------------------------------------------------
\* Properties
\* ------------------------------------------------------------------------

Waiting(p) == pc[p] = "awaitPricing"

\* the text the handler of request p hands to JSON.parse
DecodedBody(p) == Decoded(res[p].body, res[p].contentEncoding)

\* C1: the refresh of the pricing cache is single-flight.  At most one
\* select of model_pricing is in flight in every reachable state, and the
\* requests (proxied responses and GET /api/services alike) that are
\* suspended in ensurePricingCache at the same time all await the one
\* select in flight, which is the last one started: together they caused
\* exactly one query of the pricing table.
C1_SingleFlight ==
    /\ pricingInFlight \in {0, 1}
    /\ (\E p \in Requests : Waiting(p)) => pricingInFlight = 1
    /\ \A p \in Requests : Waiting(p) => awaited[p] = pricingQueries

\* a proxied response and a read request wait together on one select
C1_Witness ==
    /\ \A p \in Requests : Waiting(p)
    /\ \E p, o \in Requests : kind[p] = "proxy" /\ kind[o] = "services"
    /\ pricingQueries = 1

\* C2: when a reload of the pricing table fails (the select returns an
\* error or the awaited call rejects) the cache keeps its contents, and
\* ensurePricingCache resolves for every request suspended in it: each
\* proxied exchange among them whose body parses goes on to hand its usage
\* row to the insert.
C2_FailedReloadIsolated ==
    [][(pricingInFlight' < pricingInFlight /\ lastReload' # "data") =>
          /\ pricingCache' = pricingCache
          /\ \A p \in Requests :
                (Waiting(p) /\ kind[p] = "proxy" /\ ~ParseThrows(DecodedBody(p)))
                    => (pc'[p] = "awaitInsert" /\ row'[p] # NoRow)]_vars

\* the insert of the usage row of request p was issued
Inserting(p) == kind[p] = "proxy" /\ row[p] # NoRow

\* C3: when persisting the usage row fails (the insert returns an error or
\* throws), the status code and the body delivered to the caller are those
\* received from upstream and the handler ends by reporting the failure.
C3_PersistFailureIsolated ==
    \A p \in Requests :
        (Inserting(p) /\ pc[p] = "done" /\ report[p] # "SUCCESS") =>
            /\ delivered[p] = [statusCode |-> res[p].statusCode, body |-> res[p].body]
            /\ report[p] \in {"SUPABASE ERROR", "PARSE ERROR"}

\* the insert of a 200 response threw
C3_Witness ==
    \E p \in Requests :
        /\ Inserting(p) /\ pc[p] = "done" /\ report[p] = "PARSE ERROR"
        /\ delivered[p].statusCode = 200

\* C4: when the decoded body has a usage object the recorded token counts
\* are those of the object, a missing count being 0, whatever the fallback
\* headers hold; usage {100, 50} with x-input-tokens 999 records (100, 50).
C4_UsageAuthoritative ==
    \A p \in Requests :
        (Inserting(p) /\ DecodedBody(p).usage # NoUsage) =>
            LET usage == DecodedBody(p).usage
            IN  /\ row[p].input_tokens =
                      IF "prompt_tokens" \in DOMAIN usage THEN usage.prompt_tokens ELSE 0
                /\ row[p].output_tokens =
                      IF "completion_tokens" \in DOMAIN usage THEN usage.completion_tokens ELSE 0
                /\ usage = Usage100x50 =>
                      (row[p].input_tokens = 100 /\ row[p].output_tokens = 50)

\* usage {100, 50} was recorded for a request with x-input-tokens 999
C4_Witness ==
    \E p \in Requests :
        /\ Inserting(p) /\ DecodedBody(p).usage = Usage100x50
        /\ headers[p].xInputTokens = N999
        /\ row[p].input_tokens = 100 /\ row[p].output_tokens = 50

\* the count a fallback header carries
HeaderCount(v, count) ==
    /\ v = undefined => count = 0
    /\ IsDecimal(v) => count = DecimalVal(v)
    /\ v = N200 => count = 200
    /\ v = N80 => count = 80

\* C5: when the decoded body has no usage object the recorded token counts
\* are the counts of x-input-tokens and x-output-tokens, 0 for an absent
\* header; the fallback (200, 80) records (200, 80).
C5_FallbackTokens ==
    \A p \in Requests :
        (Inserting(p) /\ DecodedBody(p).usage = NoUsage) =>
            /\ HeaderCount(headers[p].xInputTokens, row[p].input_tokens)
            /\ HeaderCount(headers[p].xOutputTokens, row[p].output_tokens)

\* the fallback (200, 80) was recorded for a body without usage
C5_Witness ==
    \E p \in Requests :
        /\ Inserting(p) /\ DecodedBody(p).usage = NoUsage
        /\ headers[p].xInputTokens = N200 /\ headers[p].xOutputTokens = N80
        /\ row[p].input_tokens = 200 /\ row[p].output_tokens = 80

\* C6: the model of a usage row is the model named in the response body
\* when there is one, else the x-model header, else "unknown".
C6_ModelResolution ==
    \A p \in Requests :
        Inserting(p) =>
            row[p].model =
                IF DecodedBody(p).model # undefined THEN DecodedBody(p).model
                ELSE IF headers[p].xModel # undefined THEN headers[p].xModel
                ELSE Unknown

\* C8: when no rate is found for the model the cost is 0 and the exchange
\* is recorded all the same: the row handed to the insert carries the
\* extracted token counts and estimated_cost 0, and a successful insert
\* stores it.
C8_MissCostsZero ==
    \A p \in Requests :
        (Inserting(p) /\ ~rateFound[p]) =>
            /\ row[p].estimated_cost = 0
            /\ <<row[p].input_tokens, row[p].output_tokens>>
                  = ExtractTokens(headers[p], DecodedBody(p))
            /\ (pc[p] = "done" /\ report[p] = "SUCCESS") =>
                  \E i \in 1..Len(api_usage_logs) :
                      /\ api_usage_logs[i].estimated_cost = 0
                      /\ api_usage_logs[i].model = row[p].model
                      /\ api_usage_logs[i].input_tokens = row[p].input_tokens
                      /\ api_usage_logs[i].output_tokens = row[p].output_tokens

\* a row with tokens and no rate was stored with cost 0
C8_Witness ==
    \E p \in Requests :
        /\ Inserting(p) /\ ~rateFound[p] /\ pc[p] = "done" /\ report[p] = "SUCCESS"
        /\ row[p].input_tokens = 100
        /\ DOMAIN pricingCache # {}
        /\ Len(api_usage_logs) = 1 /\ api_usage_logs[1].estimated_cost = 0

\* the keys of the examples, written out
KeyStandardTextGpt4 ==
    <<"s", "t", "a", "n", "d", "a", "r", "d", ":", "t", "e", "x", "t", ":", "g", "p", "t", "-", "4">>

KeyOf(l) == toLowerCase(l.tier) \o Colon \o toLowerCase(l.category) \o Colon \o toLowerCase(l.model)

Looked(model, tier, category) ==
    lookup # NoLookup /\ lookup.model = model /\ lookup.tier = tier /\ lookup.category = category

\* C7: getPricingRate lower-cases model, tier and category and looks up
\* tier:category:model; a rate stored under that key is the result, and
\* otherwise the key with the model stripped of a trailing "-latest" and
\* the key with the model stripped of a trailing -YYYY-MM-DD are tried:
\* with a rate under standard:text:gpt-4 and none under the exact key,
\* gpt-4-2024-05-13 and gpt-4-latest both resolve to that rate.  When no
\* key of the model or of a shorter name is stored the result is null.
C7_RateFallback ==
    lookup # NoLookup =>
        /\ (lookup.model # <<>> /\ KeyOf(lookup) \in DOMAIN pricingCache)
              => lookup.rate = pricingCache[KeyOf(lookup)]
        /\ \A model \in {Gpt4Dated, Gpt4Latest, Gpt4LatestUpper}, tier \in {Standard, StandardUpper} :
              (/\ Looked(model, tier, Text) \/ Looked(model, tier, TextUpper)
               /\ KeyStandardTextGpt4 \in DOMAIN pricingCache
               /\ KeyOf(lookup) \notin DOMAIN pricingCache)
                  => lookup.rate = pricingCache[KeyStandardTextGpt4]
        /\ (\A k \in 1..Len(lookup.model) :
                toLowerCase(lookup.tier) \o Colon \o toLowerCase(lookup.category) \o Colon
                    \o toLowerCase(SubSeq(lookup.model, 1, k)) \notin DOMAIN pricingCache)
              => lookup.rate = NoRate

\* gpt-4-2024-05-13 resolved to the rate stored under standard:text:gpt-4
C7_Witness ==
    /\ Looked(Gpt4Dated, Standard, Text)
    /\ KeyOf(lookup) \notin DOMAIN pricingCache
    /\ KeyStandardTextGpt4 \in DOMAIN pricingCache
    /\ lookup.rate = [input |-> 30, output |-> 60, cachedInput |-> 0]

\* request p was answered with a service breakdown
Answered(p) ==
    kind[p] \in {"services", "backend"} /\ pc[p] = "done" /\ response[p].status = 200

\* the number of usage rows of the group an aggregate stands for
RowsOf(aggregate) ==
    Cardinality({i \in 1..Len(api_usage_logs) :
        GroupKey(api_usage_logs[i]) =
            aggregate.service_name \o Separator \o aggregate.endpoint
                \o Separator \o aggregate.user_id})

\* C9: GET /api/services applies limit and offset to the aggregates, grouped
\* and sorted by total_hits descending, never to the raw usage rows: every
\* returned aggregate counts all the rows of its group, and for the
\* aggregates ranked [A: 10, B: 7, C: 3] limit=1 and offset=1 return
\* exactly [B].
C9_PaginatesAggregates ==
    \A p \in Requests :
        Answered(p) =>
            /\ \A j \in 1..Len(response[p].body) :
                  response[p].body[j].total_hits = RowsOf(response[p].body[j])
            /\ (api_usage_logs = ExampleLogs /\ query[p] = MkQuery(<<"1">>, <<"1">>)) =>
                  /\ Len(response[p].body) = 1
                  /\ response[p].body[1].service_name = ServiceB
                  /\ response[p].body[1].total_hits = 7

\* C10: the page of GET /api/services is capped: whatever the limit and
\* offset parameters and the usage rows, the response holds at most 500
\* aggregates, and at most limit aggregates when limit is a positive
\* number.
C10_PageCapped ==
    \A p \in Requests :
        Answered(p) =>
            /\ Len(response[p].body) <= 500
            /\ (IsDecimal(OrElse(query[p].limit, <<>>)) /\ DecimalVal(query[p].limit) > 0)
                  => Len(response[p].body) <= DecimalVal(query[p].limit)

\* request p was answered with the daily usage
UsageAnswered(p) == kind[p] = "usage" /\ pc[p] = "done" /\ response[p].status = 200

\* the usage rows created on the UTC day number d
RowsOn(d) ==
    {i \in 1..Len(api_usage_logs) :
        /\ d * DayMs <= api_usage_logs[i].created_at
        /\ api_usage_logs[i].created_at < (d + 1) * DayMs}

\* the usage rows created on day d or earlier
RowsUpTo(d) ==
    {i \in 1..Len(api_usage_logs) : api_usage_logs[i].created_at < (d + 1) * DayMs}

\* C11: GET /api/usage returns exactly one entry for each UTC calendar date
\* on which a usage row was created, in ascending order of the day;
\* daily_hits is the number of rows of the day and accumulative_total the
\* number of rows of that day and all earlier days, so that it never
\* decreases and ends at the number of rows; 3 rows on D1 and 2 on D2 give
\* the totals 3 and 5.
C11_DailyUsage ==
    \A p \in Requests :
        UsageAnswered(p) =>
            LET body == response[p].body
            IN  /\ \A j, k \in 1..Len(body) : j < k => body[j].day < body[k].day
                /\ \A i \in 1..Len(api_usage_logs) :
                      \E j \in 1..Len(body) : i \in RowsOn(body[j].day)
                /\ \A j \in 1..Len(body) :
                      /\ body[j].daily_hits = Cardinality(RowsOn(body[j].day))
                      /\ body[j].daily_hits > 0
                      /\ body[j].accumulative_total = Cardinality(RowsUpTo(body[j].day))
                /\ \A j \in 1..Len(body) - 1 :
                      body[j].accumulative_total <= body[j + 1].accumulative_total
                /\ Len(body) > 0 => body[Len(body)].accumulative_total = Len(api_usage_logs)
                /\ api_usage_logs = DailyLogs =>
                      [j \in 1..Len(body) |->
                          <<body[j].day, body[j].daily_hits, body[j].accumulative_total>>]
                        = <<(<<2, 3, 3>>), (<<3, 2, 5>>)>>

\* the usage of 3 rows on one day and 2 on the next was returned
C11_Witness ==
    \E p \in Requests :
        /\ UsageAnswered(p) /\ api_usage_logs = DailyLogs
        /\ Len(response[p].body) = 2
        /\ response[p].body[2].accumulative_total = 5

\* request p was answered with the service breakdown of mock-data.ts
ServicesAnswered(p) == kind[p] = "services" /\ pc[p] = "done" /\ response[p].status = 200

\* the usage rows of the group an aggregate stands for
GroupOf(aggregate) ==
    {i \in 1..Len(api_usage_logs) :
        GroupKey(api_usage_logs[i]) =
            aggregate.service_name \o Separator \o aggregate.endpoint
                \o Separator \o aggregate.user_id}

\* C12: for every aggregate returned by GET /api/services success_count +
\* error_count = total_hits, where total_hits is the number of usage rows
\* of the group and success_count the number of those rows with
\* 200 <= status_code < 300.
C12_CountsAddUp ==
    \A p \in Requests :
        /\ Answered(p) =>
              \A j \in 1..Len(response[p].body) :
                  LET a == response[p].body[j]
                  IN  a.success_count + a.error_count = a.total_hits
        /\ ServicesAnswered(p) =>
              \A j \in 1..Len(response[p].body) :
                  LET a == response[p].body[j]
                  IN  /\ a.total_hits = Cardinality(GroupOf(a))
                      /\ a.success_count =
                            Cardinality({i \in GroupOf(a) :
                                /\ 200 <= api_usage_logs[i].status_code
                                /\ api_usage_logs[i].status_code < 300})

\* a group with successes, a redirect and no failure was returned
C12_Witness ==
    \E p \in Requests :
        /\ ServicesAnswered(p) /\ api_usage_logs = GapLogs
        /\ \E j \in 1..Len(response[p].body) :
              /\ response[p].body[j].total_hits = 3
              /\ response[p].body[j].success_count = 2
              /\ response[p].body[j].error_count = 1

\* the sum of the stored estimated_cost of the usage rows of the set `rows`
StoredCost(rows) ==
    SumSeq([i \in 1..Len(api_usage_logs) |->
               IF i \in rows THEN NumberOrZero(api_usage_logs[i].estimated_cost) ELSE 0])

\* the distance of two numbers
Distance(a, b) == IF a < b THEN b - a ELSE a - b

Refused(p) ==
    /\ pc[p] = "done"
    /\ target[p] = undefined
    /\ res[p] = NoResponse
    /\ delivered[p] # NoResponse /\ delivered[p].statusCode >= 500
    /\ row[p] = NoRow

\* C14: the target of a proxied request is its x-target-url header when it
\* carries one, otherwise the configured PROXY_TARGET; when there is
\* neither the request fails with a routing error: it is not dispatched
\* upstream, the caller receives a gateway error and no usage row is
\* written.
C14_TargetResolution ==
    \A p \in Requests :
        kind[p] = "proxy" =>
            IF headers[p].xTargetUrl # undefined
            THEN target[p] = headers[p].xTargetUrl
            ELSE IF PROXY_TARGET # undefined
            THEN target[p] = PROXY_TARGET
            ELSE Refused(p) /\ api_usage_logs = <<>>

\* a request without the header was dispatched to the configured default
C14_Witness ==
    \E p \in Requests :
        /\ kind[p] = "proxy" /\ headers[p].xTargetUrl = undefined
        /\ target[p] = DefaultTarget
        /\ pc[p] = "done" /\ report[p] = "SUCCESS"

\* C15: a proxied request that lacks required routing information (a
\* resolvable target origin, the x-service-name header or the x-user-id
\* header) is answered with a gateway error and never forwarded upstream,
\* so that no usage row carries a substituted service name or user id.
C15_RequiredRoutingHeaders ==
    /\ \A p \in Requests :
          (/\ kind[p] = "proxy"
           /\ \/ router(headers[p], PROXY_TARGET) = undefined
              \/ headers[p].xServiceName = undefined
              \/ headers[p].xUserId = undefined)
              => Refused(p)
    /\ \A i \in 1..Len(api_usage_logs) :
          /\ api_usage_logs[i].service_name # UnknownService
          /\ api_usage_logs[i].user_id # TestUser

\* the cost GET /api/services charges for the i-th usage row: its stored
\* cost when that is positive, else its tokens at the rates the pricing
\* cache holds now for its model (standard tier, text)
ChargedCost(i) ==
    LET log == api_usage_logs[i]
    IN  IF log.estimated_cost # NaN /\ log.estimated_cost > 0 THEN log.estimated_cost
        ELSE calculateCost(pricingCache, OrElse(log.model, Default),
                           NumberOrZero(log.input_tokens), NumberOrZero(log.output_tokens),
                           Standard, Text)

Received(p) == kind[p] = "proxy" /\ res[p] # NoResponse

\* the caller of request p was sent the status and the bytes of upstream
DeliveredAsReceived(p) ==
    delivered[p] = [statusCode |-> res[p].statusCode, body |-> res[p].body]

\* C16: an upstream response whose Content-Type does not include
\* application/json is never parsed as JSON and never produces a usage row,
\* whatever its status code, body and Content-Encoding: its handler ends
\* at once by skipping the log, without calling ensurePricingCache.
C16_NonJsonNeverLogged ==
    \A p \in Requests :
        (/\ Received(p)
         /\ \/ res[p].contentType = undefined
            \/ ~Includes(res[p].contentType, ApplicationJson))
            => /\ pc[p] = "done"
               /\ report[p] = "Skipping Log"
               /\ row[p] = NoRow
               /\ awaited[p] = 0
               /\ api_usage_logs = <<>>

\* a text/html response carrying a JSON object with usage was skipped
C16_Witness ==
    \E p \in Requests :
        /\ Received(p) /\ res[p].contentType = TextHtml
        /\ res[p].statusCode = 200
        /\ rawBody[p] = MkDoc(Gpt4Dated, Usage100x50)
        /\ report[p] = "Skipping Log"

\* C17: when no decoding attempt yields text that starts with { or [ after
\* trimming, the body is opaque and accounting is skipped: no usage row is
\* handed to the record store for the exchange, and the caller is sent the
\* original bytes.
C17_OpaqueSkipped ==
    \A p \in Requests :
        (Received(p) /\ ~looksLikeJson(rawBody[p])) =>
            /\ row[p] = NoRow
            /\ api_usage_logs = <<>>
            /\ DeliveredAsReceived(p)

\* C17 as amended: when no decoding attempt yields text that starts with
\* { or [ after trimming and the text is not a JSON number, string or
\* boolean either, accounting is skipped: no usage row is handed to the
\* record store for the exchange, and the caller is sent the original
\* bytes.
C17_OpaqueNotJsonSkipped ==
    \A p \in Requests :
        (Received(p) /\ ~looksLikeJson(rawBody[p]) /\ rawBody[p].shape # "scalar") =>
            /\ row[p] = NoRow
            /\ api_usage_logs = <<>>
            /\ DeliveredAsReceived(p)
            /\ pc[p] = "done" => report[p] \in {"PARSE ERROR", "Skipping Log"}

\* the handler of an application/json response whose bytes no decoder
\* turns into JSON ended in its catch, the bytes delivered as received
C17_Witness ==
    \E p \in Requests :
        /\ Received(p) /\ IsJson(res[p])
        /\ res[p].body = [codec |-> "gzip", doc |-> Garbage]
        /\ rawBody[p] = Garbage
        /\ pc[p] = "done" /\ report[p] = "PARSE ERROR"
        /\ row[p] = NoRow /\ DeliveredAsReceived(p)

C19_LatencyToReceipt ==
    \A p \in Requests :
        Inserting(p) => row[p].latency_ms = receivedAt[p] - startTime[p]

\* C20: every usage row the gateway persists has input_tokens >= 0,
\* output_tokens >= 0, estimated_cost >= 0 and latency_ms >= 0, whatever
\* the request headers (the fallback token headers included) and the
\* upstream JSON body.
C20_NonNegativeFields ==
    \A i \in 1..Len(api_usage_logs) :
        /\ api_usage_logs[i].input_tokens >= 0
        /\ api_usage_logs[i].output_tokens >= 0
        /\ api_usage_logs[i].estimated_cost >= 0
        /\ api_usage_logs[i].latency_ms >= 0

\* C21: the usage log is append-only with one record per completed
\* exchange: a step of the gateway either leaves the table as it is or
\* appends one row to it, the rows already stored are never changed or
\* removed, a row is appended exactly when the insert of a proxied exchange
\* succeeds, and an exchange that is over never inserts again.
C21_AppendOnly ==
    [][/\ Len(api_usage_logs') >= Len(api_usage_logs)
       /\ Len(api_usage_logs') <= Len(api_usage_logs) + 1
       /\ SubSeq(api_usage_logs', 1, Len(api_usage_logs)) = api_usage_logs
       /\ \A p \in Requests :
             /\ pc[p] = "done" => pc'[p] = "done"
             /\ (report[p] # "SUCCESS" /\ report'[p] = "SUCCESS") =>
                   /\ Len(api_usage_logs') = Len(api_usage_logs) + 1
                   /\ api_usage_logs'[Len(api_usage_logs')] =
                         row[p] @@ [created_at |-> now]
       /\ Len(api_usage_logs') = Len(api_usage_logs) + 1 =>
             \E p \in Requests :
                 /\ kind[p] = "proxy"
                 /\ pc[p] = "awaitInsert" /\ pc'[p] = "done"
                 /\ report'[p] = "SUCCESS"
                 /\ \A o \in Requests \ {p} : report'[o] = report[o]]_vars

\* every exchange of a run was recorded after the rows already stored, each
\* with a row of its own, while the pricing cache was reloaded in between
C21_Witness ==
    /\ \A p \in Requests : kind[p] = "proxy" /\ report[p] = "SUCCESS"
    /\ Len(api_usage_logs) = Len(MixedLogs) + NumRequests
    /\ pricingQueries >= 2

\* C22: for a rate loaded from a pricing row with input_per_million = a
\* and output_per_million = b, the cost of i input tokens and o output
\* tokens is i * a + o * b millionths, that is i*(a/1,000,000) +
\* o*(b/1,000,000); the cached-input rate of the row and the tier or the
\* category of the other rows of the table do not change it.
C22_CostFormula ==
    \A p \in Requests :
        Inserting(p) =>
            \A data \in CostTables : \A k \in 1..Len(data) :
                (/\ data[k].model = Gpt4
                 /\ data[k].category = Text
                 /\ data[k].tier = toLowerCase(OrElse(headers[p].xPricingTier, Standard))
                 /\ Cardinality(DOMAIN pricingCache) = Len(data)
                 /\ pricingCache = nextCache(data))
                => row[p].estimated_cost =
                       row[p].input_tokens * data[k].input_per_million
                       + row[p].output_tokens * data[k].output_per_million

\* 200 input and 80 output tokens are charged at 30 and 60 per million
\* while the row has a cached-input rate of 15 and the table has rows of
\* another category and of another model
C22_Witness ==
    /\ Inserting(1)
    /\ Cardinality(DOMAIN pricingCache) = 3
    /\ pricingCache[KeyStandardTextGpt4].cachedInput = 15
    /\ row[1].input_tokens = 200
    /\ row[1].output_tokens = 80
    /\ row[1].estimated_cost = 200 * 30 + 80 * 60

\* the last byte of the upstream body of request p has been received
ReceivedAll(p) == kind[p] = "proxy" /\ pc[p] \notin {"idle", "forwarded", "receiving"}

\* C23: the upstream response body is fully buffered before it is released
\* downstream: nothing of it is delivered to the caller before its last
\* byte has been received from upstream.
C23_BufferedBeforeRelease ==
    \A p \in Requests : delivered[p] # NoResponse => ReceivedAll(p)

\* C23 as amended: the upstream response body is fully buffered before it
\* is decoded and accounted: while bytes of it are still to come, what has
\* arrived has been passed on to the caller and nothing has been decoded,
\* no pricing reload has been asked for and no usage row has been built;
\* once the last byte has been received the caller has the whole body and
\* the decoded text is that of the whole body.
C23_BufferedBeforeAccounting ==
    \A p \in Requests :
        /\ pc[p] = "receiving" =>
              /\ delivered[p] = [statusCode |-> res[p].statusCode,
                                 body |-> FirstChunks(res[p].body)]
              /\ rawBody[p] = NoText
              /\ row[p] = NoRow
              /\ awaited[p] = 0
              /\ report[p] = "none"
        /\ pc[p] = "forwarded" => delivered[p] = NoResponse /\ rawBody[p] = NoText
        /\ ReceivedAll(p) =>
              /\ delivered[p] = [statusCode |-> res[p].statusCode, body |-> res[p].body]
              /\ rawBody[p] = Decoded(res[p].body, res[p].contentEncoding)

\* the first chunks of a JSON body have reached the caller of one exchange
\* while the usage row of another exchange is being inserted
C23_Witness ==
    \E p, o \in Requests :
        /\ pc[p] = "receiving"
        /\ IsJson(res[p])
        /\ delivered[p].body = FirstChunks(res[p].body)
        /\ pc[o] = "awaitInsert"

\* request p is a read request whose own handler runs in this step: it
\* arrives, or its select of api_usage_logs settles
ReadStep(p) ==
    /\ kind'[p] \in {"services", "usage"}
    /\ pc[p] \in {"idle", "awaitLogs"}
    /\ pc'[p] # pc[p]

\* two read requests of the same kind and query were both answered
AnsweredAlike(p, o) ==
    /\ kind[p] \in {"services", "usage"} /\ kind[o] = kind[p]
    /\ pc[p] = "done" /\ pc[o] = "done"
    /\ response[p].status = 200 /\ response[o].status = 200
    /\ query[p] = query[o]

\* no proxied exchange took place: the record set is the one of the start
SameRecordSet == \A p \in Requests : kind[p] # "proxy"

EnsureStep(p) ==
    \/ kind'[p] = "services" /\ pc[p] = "idle" /\ pc'[p] # "idle"
    \/ /\ kind[p] = "proxy"
       /\ pc[p] \in {"forwarded", "receiving"}
       /\ pc'[p] \notin {"forwarded", "receiving"}
       /\ IsJson(res'[p])

\* C25: after a reload from the record store has succeeded the cache is
\* Fresh, whatever rows the reload returned (none included): a resolve
\* attempt made less than the TTL after that load starts no reload, and a
\* resolve attempt made at an age of the TTL or more with no reload in
\* flight starts one.
C25_FreshAfterReload ==
    [][\A p \in Requests :
          (EnsureStep(p) /\ pricingCacheLoadedAt # 0) =>
              /\ now - pricingCacheLoadedAt < PRICING_CACHE_TTL_MS =>
                    pricingQueries' = pricingQueries
              /\ (/\ now - pricingCacheLoadedAt >= PRICING_CACHE_TTL_MS
                  /\ pricingInFlight = 0) =>
                    pricingQueries' = pricingQueries + 1]_vars

\* C26: in the fallback chain (gzip when the gzip magic bytes are present,
\* then brotli, then deflate) the first attempt that yields text looking
\* like JSON (starting with { or [) is the last attempt made, and its text
\* is the decoded body.
C26_ChainStopsAtJson ==
    \A p \in Requests :
        rawBody[p] # NoText =>
            LET chain == FallbackChain(res[p].body, res[p].contentEncoding)
            IN  \A i \in 1..Len(chain) :
                    looksLikeJson(chain[i].rawBody) =>
                        i = Len(chain) /\ rawBody[p] = chain[i].rawBody

\* C27: the pricing cache only changes by being replaced as a whole with
\* the complete result of one successful reload: its contents are at any
\* time the initial empty map or exactly the rows one reload returned, never
\* a map under construction or a mix of the entries of two loads.
C27_ReplacedWholesale ==
    /\ [](\/ pricingCache = EmptyCache
          \/ \E data \in ReloadTables : pricingCache = nextCache(data))
    /\ [][pricingCache' # pricingCache =>
             /\ pricingCacheLoading = "pending"
             /\ lastReload' = "data"
             /\ pricingCacheLoadedAt' = now
             /\ \E data \in ReloadTables : pricingCache' = nextCache(data)]_vars

\* a second reload, made once the first load was a TTL old, has replaced a
\* cache of two rows, at whose rate an earlier exchange was charged, by a
\* cache of one row
C27_Witness ==
    /\ pricingQueries = 2
    /\ lastReload = "data"
    /\ pricingCacheLoadedAt = StartTime + TickMs
    /\ pricingCache = nextCache(<<MkPricing(Gpt4, Standard, Text, 30, 60)>>)
    /\ \E p \in Requests :
          /\ pc[p] = "awaitInsert"
          /\ awaited[p] = 1
          /\ row[p].estimated_cost = 100 * 10 + 50 * 20

\* the three fields a usage row is grouped by, as the breakdown reads them
FieldsOf(log) ==
    <<OrElse(log.service_name, UnknownService), OrElse(log.endpoint, Slash),
      OrElse(log.user_id, UnknownUser)>>

\* C28: GET /api/services groups by the composite key (service name,
\* endpoint, user id): two usage rows are counted in the same aggregate if
\* and only if their three fields are equal, whatever strings they hold
\* (the separator "::" included), so every aggregate counts exactly the rows
\* that have its three fields.
C28_GroupsByFields ==
    \A p \in Requests :
        ServicesAnswered(p) =>
            \A j \in 1..Len(response[p].body) :
                LET a == response[p].body[j]
                    fields == <<a.service_name, a.endpoint, a.user_id>>
                IN  a.total_hits =
                        Cardinality({i \in 1..Len(api_usage_logs) :
                                        FieldsOf(api_usage_logs[i]) = fields})

\* the cost of 100 input and 50 output tokens of gpt-4, standard tier, at
\* the rates of a cache
CostOf100x50(cache) ==
    IF KeyStandardTextGpt4 \in DOMAIN cache
    THEN 100 * cache[KeyStandardTextGpt4].input + 50 * cache[KeyStandardTextGpt4].output
    ELSE 0

\* C29: a resolve attempt made while a reload is in flight waits for that
\* reload: the exchange is suspended on the pending select without starting
\* another, no cost is computed for it while the reload is pending, and when
\* the reload completes its cost is computed from the contents of the cache
\* the reload left behind.
C29_WaitsForSharedReload ==
    [][\A p \in Requests :
          /\ (EnsureStep(p) /\ pricingCacheLoading = "pending") =>
                /\ pc'[p] = "awaitPricing"
                /\ awaited'[p] = pricingQueries
                /\ pricingQueries' = pricingQueries
                /\ row'[p] = NoRow
          /\ (kind[p] = "proxy" /\ pc[p] = "awaitPricing") =>
                /\ row[p] = NoRow
                /\ pricingCacheLoading = "pending"
                /\ awaited[p] = pricingQueries
                /\ pc'[p] # "awaitPricing" =>
                      /\ pricingInFlight' = pricingInFlight - 1
                      /\ pricingCacheLoading' # "pending"
                      /\ row'[p] # NoRow =>
                            row'[p].estimated_cost = CostOf100x50(pricingCache')]_vars

\* two exchanges waited for the one reload of the run, the second of them
\* having found it pending, and both were charged at the rates it returned
C29_Witness ==
    /\ pricingQueries = 1
    /\ awaited[1] = 1 /\ awaited[2] = 1
    /\ pc[1] = "awaitInsert" /\ pc[2] = "awaitInsert"
    /\ row[1].estimated_cost = 100 * 10 + 50 * 20
    /\ row[2].estimated_cost = 100 * 10 + 50 * 20

\* C30: the Loading state is always left: whenever an in-flight reload
\* finishes (with rows, with an error or by throwing) pricingCacheLoading
\* is null again, so that a later resolve attempt on an empty or stale
\* cache, with no reload in flight, starts a fresh reload.
C30_LoadingIsLeft ==
    [][/\ pricingInFlight' < pricingInFlight => pricingCacheLoading' = "null"
       /\ \A p \in Requests :
             (EnsureStep(p) /\ ~CacheFresh /\ pricingInFlight = 0) =>
                 /\ pricingQueries' = pricingQueries + 1
                 /\ pricingCacheLoading' = "pending"]_vars

====
